---- MODULE Spec2Model ----
(***************************************************************************)
(* Model of the VSE parallel render add-on (addons/parallel_render.py):    *)
(* the range partitioners, the framed MessageChannel, and the dispatcher   *)
(* of ParallelRender._render_project_file with its worker supervisors.     *)
(*                                                                         *)
(* Three specifications share the module:                                  *)
(*   SpecRanges   the two partitioners applied to bounded scenes           *)
(*   SpecChannel  MessageChannel.send / recv over a byte stream            *)
(*   Spec         the job thread, the pool of supervisors and the observer *)
(*   SpecRun      the same run of one batch, with the project copy of _run  *)
(*                and the preferences and panel callbacks                   *)
(*   SpecWorker   the same run of one batch, with the child process of its  *)
(*                supervisor: render() and the two ends of the connection   *)
(***************************************************************************)
EXTENDS Integers, Sequences, FiniteSets, TLC

VARIABLES
    \* ---- partitioner (SpecRanges) and job input (Spec)
    scn,            \* the scene: frame_start, frame_end, batch_type, parts, fixed
    ranges,         \* tuple(make_ranges(scn))
    rpc,            \* "start" before make_ranges ran, "done" after
    \* ---- MessageChannel over one connection (SpecChannel)
    wire,           \* bytes written by the sending end and not yet read
    wclosed,        \* the sending end of the connection was closed
    sent,           \* history: what the sending end put on the stream, in order
    rx,             \* the receiving end: position in recv()/_recv(), buf, the values
                    \* recv() returned, and whether some read came back short
    \* ---- the job (Spec): ParallelRender, its pool of supervisors, the observer
    props,          \* scn.parallel_render_panel: max_parallel and, once the run has
                    \* read them, mixdown, concatenate, clean_up_parts
    summary_mutex,  \* self.summary_mutex: None, or the Lock with its locked flag
    summary,        \* self.summary: None until set, then batches, batches_done,
                    \* frames, frames_done
    state,          \* self.state
    jpc,            \* position of the job thread in _render_project_file
    num,            \* the collect loop's enumerate counter
    results,        \* results: range -> RunResult
    sup,            \* per batch: the locals of run() and its position
    outq,           \* results returned by run() and not yet yielded by imap_unordered
    files,          \* files on disk: part files, mixdown sound, playlist, final output
    playlist,       \* concatenate_files: None while unbound
    ran,            \* pipeline stages whose body has started
    ui_pc,          \* position of the observer (modal)
    work,           \* work_project_file of _run: the project file or its temporary
                    \* copy, whether the copy is on disk, and its autosave siblings
    panel,          \* the add-on preferences and the panel's flags; None where the
                    \* run reads flags that are not tracked
    esc,            \* history: modal() has been handed an ESC event
    proc            \* per batch, the child process of its supervisor: position in
                    \* render(), the messages it sent that were not received yet,
                    \* both ends of the connection, its exit code; None where the
                    \* supervisors receive from children that are not tracked

rvars == <<scn, ranges, rpc>>

cvars == <<wire, wclosed, sent, rx>>

dvars == <<props, summary_mutex, summary, state, jpc, num, results, sup, outq, files,
           playlist, ran, ui_pc, work, panel, esc, proc>>

\* what the actions of one component leave alone
NotRanges == <<cvars, dvars>>
NotChannel == <<rvars, dvars>>
NotJob == <<cvars, work, panel, esc, proc>>

(***************************************************************************)
(* Bounds of the partitioner inputs.                                       *)
(***************************************************************************)
MinFrame == 0
MaxFrame == 7
MaxParam == 4

(***************************************************************************)
(* Bound of the channel: the number of frames one end puts on the stream.  *)
(***************************************************************************)
MaxMsgs == 2

(***************************************************************************)
(* Bounds of the job: the frames of the scene rendered, its batching       *)
(* parameter, the pool size and the progress messages of one worker.       *)
(***************************************************************************)
JobLen == 3
MaxJobParam == 2
MaxParallel == 2
MaxProgress == 1

\* Python's None (an absent value); a present optional value v is <<v>>.
None == <<>>

(***************************************************************************)
(* Range Partitioner                                                       *)
(***************************************************************************)

\* A partitioner loop whose ranges end one frame late (offset + end).
RECURSIVE PartsLoopOverlap(_, _, _, _, _)
PartsLoopOverlap(offset, length, parts, i, current) ==
    IF i > parts THEN <<>>
    ELSE LET end == (i * length) \div parts
         IN  << <<offset + current, offset + end>> >>
                 \o PartsLoopOverlap(offset, length, parts, i + 1, end)

\* A partitioner loop that cuts length \div parts frames per piece and gives
\* the remainder to the last piece.
RECURSIVE PartsLoopRemainderLast(_, _, _, _, _)
PartsLoopRemainderLast(offset, length, parts, i, current) ==
    IF i > parts THEN <<>>
    ELSE LET end == IF i = parts THEN length ELSE i * (length \div parts)
         IN  << <<offset + current, offset + end - 1>> >>
                 \o PartsLoopRemainderLast(offset, length, parts, i + 1, end)

\* for i in range(1, parts + 1): end = i * length // parts; yield ...; current = end
RECURSIVE PartsLoop(_, _, _, _, _)
PartsLoop(offset, length, parts, i, current) ==
    IF i > parts THEN <<>>
    ELSE LET end == (i * length) \div parts
         IN  << <<offset + current, offset + end - 1>> >>
                 \o PartsLoop(offset, length, parts, i + 1, end)

\* _get_ranges_parts without the `length <= parts` collapse.
get_ranges_parts_nocollapse(s) ==
    PartsLoop(s.frame_start, s.frame_end - s.frame_start + 1, s.parts, 1, 0)

\* ParallelRender._get_ranges_parts
get_ranges_parts(s) ==
    LET offset == s.frame_start
        end    == s.frame_end - offset
        length == end + 1
        parts  == s.parts
    IN  IF length <= parts
        THEN << <<s.frame_start, s.frame_end>> >>
        ELSE PartsLoop(offset, length, parts, 1, 0)

Min(a, b) == IF a < b THEN a ELSE b

\* A fixed-size loop stepping by increment only, so that ranges share a frame.
RECURSIVE FixedLoopShortStep(_, _, _)
FixedLoopShortStep(start, end, increment) ==
    IF start <= end
    THEN << <<start, Min(start + increment, end)>> >>
             \o FixedLoopShortStep(start + increment, end, increment)
    ELSE <<>>

\* while start <= end: yield (start, min(start + increment, end)); start += increment + 1
RECURSIVE FixedLoop(_, _, _)
FixedLoop(start, end, increment) ==
    IF start <= end
    THEN << <<start, Min(start + increment, end)>> >>
             \o FixedLoop(start + increment + 1, end, increment)
    ELSE <<>>

\* ParallelRender._get_ranges_fixed
get_ranges_fixed(s) == FixedLoop(s.frame_start, s.frame_end, s.fixed)

\* getattr(self, '_get_ranges_{0}'.format(str(props.batch_type)))(scn)
make_ranges(s) ==
    IF s.batch_type = "parts" THEN get_ranges_parts(s) ELSE get_ranges_fixed(s)

BatchTypes == {"parts", "fixed"}

Scenes ==
    [frame_start : MinFrame..MaxFrame, frame_end : MinFrame..MaxFrame,
     batch_type : BatchTypes, parts : 1..MaxParam, fixed : 1..MaxParam]

RangesInit ==
    /\ scn \in {s \in Scenes : s.frame_start <= s.frame_end}
    /\ ranges = <<>>
    /\ rpc = "start"

\* ranges = tuple(make_ranges(scn))
MakeRanges ==
    /\ rpc = "start"
    /\ ranges' = make_ranges(scn)
    /\ rpc' = "done"
    /\ UNCHANGED scn
    /\ UNCHANGED NotRanges


(***************************************************************************)
(* Message Channel                                                         *)
(*                                                                         *)
(* Bytes are integers 0..255, text is the sequence of its character codes. *)
(* A payload is None or a dict of the worker protocol: current_frame with  *)
(* an optional output_file.                                                *)
(***************************************************************************)

\* struct.calcsize('!i')
MSG_SIZE_SIZE == 4

\* struct.pack('!i', n) with the bytes in little-endian order.
PackLittleEndian(n) ==
    <<n % 256, (n \div 256) % 256, (n \div 65536) % 256, (n \div 16777216) % 256>>

\* struct.pack('!i', n): 32-bit two's complement, big-endian
Pack(n) ==
    <<(n \div 16777216) % 256, (n \div 65536) % 256, (n \div 256) % 256, n % 256>>

\* struct.unpack('!i', b)[0]
Unpack(b) ==
    LET high == IF b[1] >= 128 THEN b[1] - 256 ELSE b[1]
    IN  high * 16777216 + b[2] * 65536 + b[3] * 256 + b[4]

\* 'current_frame' and 'output_file', the keys of the worker's messages
KeyCurrentFrame == <<99, 117, 114, 114, 101, 110, 116, 95, 102, 114, 97, 109, 101>>
KeyOutputFile == <<111, 117, 116, 112, 117, 116, 95, 102, 105, 108, 101>>

\* the JSON text null
NullText == <<110, 117, 108, 108>>

RECURSIVE Digits(_)
Digits(n) == IF n < 10 THEN <<48 + n>> ELSE Digits(n \div 10) \o <<48 + (n % 10)>>

DumpsInt(n) == IF n < 0 THEN <<45>> \o Digits(-n) ELSE Digits(n)

DumpsStr(s) == <<34>> \o s \o <<34>>

\* json.dumps that serializes None to the empty text.
DumpsNoneEmpty(msg) ==
    IF msg = None THEN <<>>
    ELSE <<123>> \o DumpsStr(KeyCurrentFrame) \o <<58, 32>> \o DumpsInt(msg.current_frame)
           \o (IF "output_file" \in DOMAIN msg
               THEN <<44, 32>> \o DumpsStr(KeyOutputFile) \o <<58, 32>>
                     \o DumpsStr(msg.output_file)
               ELSE <<>>)
           \o <<125>>

\* json.dumps(msg).encode('utf8'): None gives null, a dict gives
\* {"current_frame": 12, "output_file": "a"} with ", " and ": " separators
Dumps(msg) ==
    IF msg = None THEN NullText
    ELSE <<123>> \o DumpsStr(KeyCurrentFrame) \o <<58, 32>> \o DumpsInt(msg.current_frame)
           \o (IF "output_file" \in DOMAIN msg
               THEN <<44, 32>> \o DumpsStr(KeyOutputFile) \o <<58, 32>>
                     \o DumpsStr(msg.output_file)
               ELSE <<>>)
           \o <<125>>

\* what json.loads raises on text that is no JSON value
JsonError == [error |-> "JSONDecodeError"]

At(b, i) == IF i >= 1 /\ i <= Len(b) THEN b[i] ELSE -1

RECURSIVE ScanDigits(_, _, _)
ScanDigits(b, i, acc) ==
    IF At(b, i) \in 48..57
    THEN ScanDigits(b, i + 1, acc * 10 + (b[i] - 48))
    ELSE [val |-> acc, pos |-> i]

ParseInt(b, i) ==
    IF At(b, i) = 45
    THEN LET r == ScanDigits(b, i + 1, 0)
         IN  [ok |-> r.pos > i + 1, val |-> 0 - r.val, pos |-> r.pos]
    ELSE LET r == ScanDigits(b, i, 0)
         IN  [ok |-> r.pos > i, val |-> r.val, pos |-> r.pos]

RECURSIVE ScanString(_, _, _)
ScanString(b, i, acc) ==
    IF i > Len(b) THEN [ok |-> FALSE, val |-> acc, pos |-> i]
    ELSE IF b[i] = 34 THEN [ok |-> TRUE, val |-> acc, pos |-> i + 1]
    ELSE ScanString(b, i + 1, Append(acc, b[i]))

\* a JSON value at position i: a string (opening quote at i) or an integer
ParseValue(b, i) ==
    IF At(b, i) = 34 THEN ScanString(b, i + 1, <<>>) ELSE ParseInt(b, i)

KeyName(chars) == IF chars = KeyCurrentFrame THEN "current_frame" ELSE "output_file"

\* the members of a JSON object from position i on, added to obj
RECURSIVE ParseMembers(_, _, _)
ParseMembers(b, i, obj) ==
    IF At(b, i) # 34 THEN JsonError
    ELSE LET k == ScanString(b, i + 1, <<>>)
         IN  IF \/ ~k.ok
                \/ k.val \notin {KeyCurrentFrame, KeyOutputFile}
                \/ At(b, k.pos) # 58
                \/ At(b, k.pos + 1) # 32
             THEN JsonError
             ELSE LET v == ParseValue(b, k.pos + 2)
                      withkey == (KeyName(k.val) :> v.val) @@ obj
                  IN  IF ~v.ok THEN JsonError
                      ELSE IF At(b, v.pos) = 125 /\ v.pos = Len(b) THEN withkey
                      ELSE IF At(b, v.pos) = 44 /\ At(b, v.pos + 1) = 32
                           THEN ParseMembers(b, v.pos + 2, withkey)
                      ELSE JsonError

\* json.loads(text.decode('utf8')) for the texts json.dumps writes
Loads(b) ==
    IF b = NullText THEN None
    ELSE IF At(b, 1) = 123 THEN ParseMembers(b, 2, <<>>)
    ELSE JsonError

\* what MessageChannel.send(msg) writes: sendall(packed_size); sendall(msg)
Frame(msg) == Pack(Len(Dumps(msg))) \o Dumps(msg)

\* the payloads sent in the model
ChanFrames == {-1, 12}
ChanFiles == {<<97>>}
Payloads ==
    [current_frame : ChanFrames]
        \cup [current_frame : ChanFrames, output_file : ChanFiles]

\* _recv's loop run once: whatever the first read returns is taken as the
\* whole buffer (no reassembly of short reads).
RecvFilledNoLoop(buf, size) == Len(buf) >= 1 \/ Len(buf) >= size

\* while len(buf) < size: ... ; the loop of _recv has ended
RecvFilled(buf, size) == Len(buf) >= size

\* a read of zero bytes taken for the end of the stream: recv returns None.
ReadEmptyAsSentinel(r) == [r EXCEPT !.pc = "idle", !.delivered = Append(@, None)]

\* if len(read) == 0: raise Exception('Unexpected end of connection')
ReadEmpty(r) == [r EXCEPT !.pc = "raised"]

\* recv() after _recv(MSG_SIZE_SIZE) returned buf
GotSize(r, buf) ==
    LET msg_size == Unpack(buf)
    IN  IF Len(buf) # MSG_SIZE_SIZE THEN [r EXCEPT !.pc = "raised", !.buf = <<>>]
        ELSE IF msg_size = 0
        THEN [r EXCEPT !.pc = "idle", !.buf = <<>>, !.delivered = Append(@, None)]
        ELSE IF msg_size < 0
        THEN [r EXCEPT !.pc = "raised", !.buf = <<>>]
        ELSE [r EXCEPT !.pc = "body", !.buf = <<>>, !.size = msg_size]

\* recv() after _recv(msg_size) returned buf: json.loads, which may raise
GotBody(r, buf) ==
    IF Loads(buf) = JsonError
    THEN [r EXCEPT !.pc = "raised", !.buf = <<>>]
    ELSE [r EXCEPT !.pc = "idle", !.buf = <<>>, !.delivered = Append(@, Loads(buf))]

\* buf += read, then the rest of recv() up to its next blocking read
ReadChunk(r, read) ==
    LET buf == r.buf \o read
        rr  == [r EXCEPT !.short = @ \/ Len(read) < r.size - Len(r.buf)]
    IN  IF ~RecvFilled(buf, r.size) THEN [rr EXCEPT !.buf = buf]
        ELSE IF r.pc = "size" THEN GotSize(rr, buf)
        ELSE GotBody(rr, buf)

ChannelInit ==
    /\ wire = <<>>
    /\ wclosed = FALSE
    /\ sent = <<>>
    /\ rx = [pc |-> "idle", buf |-> <<>>, size |-> 0, delivered |-> <<>>,
             short |-> FALSE]

\* MessageChannel.send(msg) on the sending end
ChanSend ==
    /\ ~wclosed
    /\ Len(sent) < MaxMsgs
    /\ \E msg \in Payloads \cup {None} :
          /\ wire' = wire \o Frame(msg)
          /\ sent' = Append(sent, [msg |-> msg, frame |-> Frame(msg), via |-> "send"])
    /\ UNCHANGED <<wclosed, rx>>
    /\ UNCHANGED NotChannel

\* a peer writes a frame of length zero (prefix only), as the mocked
\* connection of MessageChannelTest.test_unexpected_end delivers it
ChanSendZeroFrame ==
    /\ ~wclosed
    /\ Len(sent) < MaxMsgs
    /\ wire' = wire \o Pack(0)
    /\ sent' = Append(sent, [msg |-> None, frame |-> Pack(0), via |-> "raw"])
    /\ UNCHANGED <<wclosed, rx>>
    /\ UNCHANGED NotChannel

\* the sending end goes away: MessageChannel.__exit__ / process exit
ChanClose ==
    /\ ~wclosed
    /\ wclosed' = TRUE
    /\ UNCHANGED <<wire, sent, rx>>
    /\ UNCHANGED NotChannel

\* the sending process dies inside send(): a proper prefix of the frame is
\* on the stream and the connection is closed
ChanSendCut ==
    /\ ~wclosed
    /\ Len(sent) < MaxMsgs
    /\ \E msg \in Payloads \cup {None} :
          \E k \in 1..(Len(Frame(msg)) - 1) :
             /\ wire' = wire \o SubSeq(Frame(msg), 1, k)
             /\ sent' = Append(sent, [msg |-> msg, frame |-> SubSeq(Frame(msg), 1, k),
                                      via |-> "cut"])
    /\ wclosed' = TRUE
    /\ UNCHANGED rx
    /\ UNCHANGED NotChannel

\* recv() is called: it starts _recv(MSG_SIZE_SIZE)
RecvCall ==
    /\ rx.pc = "idle"
    /\ rx' = [rx EXCEPT !.pc = "size", !.buf = <<>>, !.size = MSG_SIZE_SIZE]
    /\ UNCHANGED <<wire, wclosed, sent>>
    /\ UNCHANGED NotChannel

\* read = self._conn.recv(size - len(buf)) returns 1..size-len(buf) of the
\* bytes in flight
RecvRead ==
    /\ rx.pc \in {"size", "body"}
    /\ wire # <<>>
    /\ \E k \in 1..Min(Len(wire), rx.size - Len(rx.buf)) :
          /\ rx' = ReadChunk(rx, SubSeq(wire, 1, k))
          /\ wire' = SubSeq(wire, k + 1, Len(wire))
    /\ UNCHANGED <<wclosed, sent>>
    /\ UNCHANGED NotChannel

\* self._conn.recv returns b'': the peer closed and nothing is left to read
RecvReadEof ==
    /\ rx.pc \in {"size", "body"}
    /\ wire = <<>>
    /\ wclosed
    /\ rx' = ReadEmpty(rx)
    /\ UNCHANGED <<wire, wclosed, sent>>
    /\ UNCHANGED NotChannel

ChannelNext ==
    \/ ChanSend
    \/ ChanSendZeroFrame
    \/ ChanClose
    \/ ChanSendCut
    \/ RecvCall
    \/ RecvRead
    \/ RecvReadEof

(***************************************************************************)
(* Dispatcher: ParallelRender._render_project_file, the supervisors run()  *)
(* of the thread pool, and the observer modal().                           *)
(***************************************************************************)
Some(v) == <<v>>

\* ParallelRenderState
JobStates == {"CLEANING", "RUNNING", "MIXDOWN", "CONCATENATE", "FAILED", "CANCELLING"}

\* exit codes of a child process or of the concatenation tool
ExitCodes == {0, 1, -11}

PartFile(b) == <<"part", b>>
SoundFile == <<"sound">>
PlaylistFile == <<"playlist">>
OutFile == <<"outfile">>

Batches == 1..Len(ranges)

\* the frames a worker's render_stats handler may report for a batch
\* a worker that also reports the frame before its range
WorkerFramesBelowRange(b) == (ranges[b][1] - 1)..ranges[b][2]

WorkerFrames(b) == ranges[b][1]..ranges[b][2]

\* a lock that never excludes anybody
CanAcquireAlways(m) == TRUE

\* with self.summary_mutex: the lock can be taken
CanAcquire(m) == m # None /\ ~m.locked

Locked == [locked |-> TRUE]
Unlocked == [locked |-> FALSE]

\* any rc but 0 counts as success
FailingPositiveOnly(res) == res.rc # None /\ res.rc[1] > 0

\* no result counts as a failure
FailingNever(res) == FALSE

\* a result without an exit code counts as a failure
FailingIfNotZero(res) == res.rc # Some(0)

\* res.rc not in (0, None)
Failing(res) == res.rc \notin {Some(0), None}

AnyFailing(rs) == \E k \in DOMAIN rs : Failing(rs[k])

Active(b) == sup[b].pc \notin {"todo", "done"}

\* RunResult(rng, cmd, res, output_file)
RunResult(b, rc, output_file) ==
    [range |-> ranges[b], rc |-> rc, output_file |-> output_file]

\* the locals of a run() that has not started
SupNew ==
    [pc |-> "todo", last_done |-> 0, frame_done |-> 0, msg |-> None, tmp |-> 0,
     nprog |-> 0]

\* the locals of a run() that has returned
SupDone ==
    [pc |-> "done", last_done |-> 0, frame_done |-> 0, msg |-> None, tmp |-> 0,
     nprog |-> 0]

\* run() returns: the pool puts the result on its output queue
Return(b, rc, output_file) ==
    /\ sup' = [sup EXCEPT ![b] = SupDone]
    /\ outq' = Append(outq, RunResult(b, rc, output_file))

\* an exception that escapes run() and leaves no result
RunExceptEscapes(b) ==
    /\ sup' = [sup EXCEPT ![b] = SupDone]
    /\ outq' = outq

\* an except clause that leaves res at None
RunExceptSwallowed(b) == Return(b, None, None)

\* except Exception as exc: res = -1; return RunResult(rng, cmd, res, output_file)
RunExcept(b) == Return(b, Some(-1), None)

\* the highest number of an autosave sibling (path + str(n)) of the copy
MaxAutosave == 2

\* CurrentProjectFile / TemporaryProjectCopy before __enter__
WorkNew(dirty) == [dirty |-> dirty, path |-> "none", copy |-> FALSE, autosave |-> {}]

\* _cleanup_autosave_files: unlink path1, path2, ... up to the first that is missing
cleanup_autosave_files(S) == S \ {n \in S : \A m \in 1..n : m \in S}

\* TemporaryProjectCopy._cleanup: os.unlink(self.path), then the autosave files
cleanup(w) == [w EXCEPT !.copy = FALSE, !.autosave = cleanup_autosave_files(@)]

\* an __exit__ that disposes of the copy only when the body returned normally
ProjectExitOnSuccessOnly(w, exc) ==
    IF w.path = "copy" THEN (IF exc THEN w ELSE cleanup(w)) ELSE [w EXCEPT !.path = "none"]

\* __exit__ of work_project_file, whatever ended the body of the with
ProjectExit(w, exc) ==
    IF w.path = "copy" THEN cleanup(w) ELSE [w EXCEPT !.path = "none"]

JobScenes ==
    {s \in [frame_start : {1}, frame_end : {JobLen}, batch_type : BatchTypes,
            parts : 1..MaxJobParam, fixed : 1..MaxJobParam] :
        /\ s.batch_type = "parts" => s.fixed = 1
        /\ s.batch_type = "fixed" => s.parts = 1}

\* props.<name> as the run reads it: the panel's value, any value where the
\* panel is not tracked
PanelRead(name) == IF panel = None THEN BOOLEAN ELSE {panel[name]}

\* The panel's properties. max_parallel is read when the pool is made; each of
\* mixdown, concatenate and clean_up_parts is drawn where the run first reads
\* it and joins props there.
JobProps == [max_parallel : 1..MaxParallel]

\* ParallelRender.execute has started the thread; nothing of the run exists yet
JobStart(scenes, works, panels, procs, disks) ==
    /\ proc \in procs
    /\ files \in disks
    /\ scn \in scenes
    /\ work \in works
    /\ panel \in panels
    /\ esc = FALSE
    /\ ranges = <<>>
    /\ rpc = "start"
    /\ props \in JobProps
    /\ summary_mutex = None
    /\ summary = None
    /\ state = "None"
    /\ jpc = "enter"
    /\ num = 0
    /\ results = <<>>
    /\ sup = <<>>
    /\ outq = <<>>
    /\ playlist = None
    /\ ran = {}
    /\ ui_pc = "idle"

\* a saved project (bpy.data.is_dirty is false); the flags the run reads are any
JobInit == JobStart(JobScenes, {WorkNew(FALSE)}, {None}, {None}, {{}})

JobIdle ==
    /\ proc = None
    /\ work = None
    /\ panel = None
    /\ esc = FALSE
    /\ props = None
    /\ summary_mutex = None
    /\ summary = None
    /\ state = "None"
    /\ jpc = "idle"
    /\ num = 0
    /\ results = <<>>
    /\ sup = <<>>
    /\ outq = <<>>
    /\ files = {}
    /\ playlist = None
    /\ ran = {}
    /\ ui_pc = "off"

\* _run: work_project_file.__enter__(). A saved project is used as it is. With
\* unsaved changes NamedTemporaryFile makes the copy (or raises, nothing made),
\* then save_as_mainfile writes it, leaving any of its numbered siblings, and
\* either returns or raises: _cleanup() and the error is raised again.
JobEnter ==
    /\ jpc = "enter"
    /\ IF ~work.dirty
       THEN /\ work' = [work EXCEPT !.path = "project"]
            /\ jpc' = "new"
       ELSE \/ /\ work' = work
               /\ jpc' = "raised"
            \/ \E S \in SUBSET (1..MaxAutosave) :
                  LET w == [work EXCEPT !.path = "copy", !.copy = TRUE, !.autosave = S]
                  IN  \/ /\ work' = w
                         /\ jpc' = "new"
                      \/ /\ work' = cleanup(w)
                         /\ jpc' = "raised"
    /\ UNCHANGED <<rvars, props, summary_mutex, summary, state, num, results, sup, outq,
                   files, playlist, ran, ui_pc>>
    /\ UNCHANGED <<cvars, panel, esc, proc>>

\* _run: the with statement ends, by return or by an exception of
\* _render_project_file: work_project_file.__exit__()
JobExit ==
    /\ jpc \in {"done", "died"}
    /\ work' = ProjectExit(work, jpc = "died")
    /\ jpc' = IF jpc = "done" THEN "returned" ELSE "raised"
    /\ UNCHANGED <<rvars, props, summary_mutex, summary, state, num, results, sup, outq,
                   files, playlist, ran, ui_pc>>
    /\ UNCHANGED <<cvars, panel, esc, proc>>

\* self.summary_mutex = Lock()
JobMakeMutex ==
    /\ jpc = "new"
    /\ summary_mutex' = Unlocked
    /\ jpc' = "mk_summary"
    /\ UNCHANGED <<rvars, props, summary, state, num, results, sup, outq, files, playlist,
                   ran, ui_pc>>
    /\ UNCHANGED NotJob

MaxEnd(rs) == CHOOSE e \in {rs[i][2] : i \in 1..Len(rs)} :
                 \A i \in 1..Len(rs) : rs[i][2] <= e

MinStart(rs) == CHOOSE s \in {rs[i][1] : i \in 1..Len(rs)} :
                   \A i \in 1..Len(rs) : rs[i][1] >= s

\* ranges = tuple(make_ranges(scn)); cmds = ...; self.summary = {...}
\* (max() of no ranges raises ValueError and ends the thread)
JobMakeSummary ==
    /\ jpc = "mk_summary"
    /\ ranges' = make_ranges(scn)
    /\ rpc' = "done"
    /\ IF ranges' = <<>>
       THEN /\ jpc' = "died"
            /\ UNCHANGED <<summary, sup>>
       ELSE /\ summary' = [batches |-> Len(ranges'), batches_done |-> 0,
                           frames |-> MaxEnd(ranges') - MinStart(ranges') + 1,
                           frames_done |-> 0]
            /\ sup' = [b \in 1..Len(ranges') |-> SupNew]
            /\ jpc' = "set_running"
    /\ UNCHANGED <<scn, props, summary_mutex, state, num, results, outq, files, playlist,
                   ran, ui_pc>>
    /\ UNCHANGED NotJob

\* self.state = ParallelRenderState.RUNNING; with Pool(props.max_parallel) as pool
JobSetRunning ==
    /\ jpc = "set_running"
    /\ state' = "RUNNING"
    /\ jpc' = "collect"
    /\ UNCHANGED <<rvars, props, summary_mutex, summary, num, results, sup, outq, files,
                   playlist, ran, ui_pc>>
    /\ UNCHANGED NotJob

(***************************************************************************)
(* The child process of a supervisor: render(), run by the Blender that    *)
(* WorkerProcess.__enter__ starts, and the connection between the two.     *)
(***************************************************************************)
\* the progress messages of a child whose reports are followed in full
MaxSent == 2

\* the supervisor reads another progress message: of an untracked child at
\* most MaxProgress, of a tracked child what it has sent
ProgressAllowed(b) == IF proc = None THEN sup[b].nprog < MaxProgress ELSE TRUE

\* a child that was not started: --overwrite as its supervisor will pass it,
\* and the number of progress messages it sends at most
ProcNew(overwrite, limit) ==
    [pc |-> "off", overwrite |-> overwrite, limit |-> limit, listening |-> FALSE,
     stdin |-> <<>>, stdin_closed |-> FALSE, chan |-> <<>>, log |-> <<>>, conn |-> "none",
     wconn |-> "none", nsent |-> 0, rendered |-> FALSE, exc |-> FALSE, exit |-> None]

\* '--start-frame' and '--end-frame', the keys of the config that are followed
KeyStartFrame == <<45, 45, 115, 116, 97, 114, 116, 45, 102, 114, 97, 109, 101>>
KeyEndFrame == <<45, 45, 101, 110, 100, 45, 102, 114, 97, 109, 101>>

\* the text of the config up to its first value, and between its values
ConfigHead == <<123>> \o DumpsStr(KeyStartFrame) \o <<58, 32>>
ConfigMid == <<44, 32>> \o DumpsStr(KeyEndFrame) \o <<58, 32>>

\* json.dumps(config).encode('utf8'), of the config the frame arguments only
DumpsConfig(rng) ==
    ConfigHead \o DumpsInt(rng[1]) \o ConfigMid \o DumpsInt(rng[2]) \o <<125>>

\* json.load(sys.stdin) in read_config: the whole input is one JSON object,
\* here the object with the two frame arguments
LoadConfig(b) ==
    LET v1 == ParseInt(b, Len(ConfigHead) + 1)
        v2 == ParseInt(b, v1.pos + Len(ConfigMid))
    IN  IF /\ Len(b) > Len(ConfigHead)
           /\ SubSeq(b, 1, Len(ConfigHead)) = ConfigHead
           /\ v1.ok
           /\ SubSeq(b, v1.pos, v1.pos + Len(ConfigMid) - 1) = ConfigMid
           /\ v2.ok
           /\ v2.pos = Len(b)
           /\ b[v2.pos] = 125
        THEN <<v1.val, v2.val>>
        ELSE JsonError

\* a config written as a channel message: length prefix, then the text
ConfigWrittenFramed(rng) == Pack(Len(DumpsConfig(rng))) \o DumpsConfig(rng)

\* self._p.stdin.write(json.dumps(config).encode('utf8'))
ConfigWritten(rng) == DumpsConfig(rng)

\* WorkerProcess(cmd, ...): the socket is bound to localhost and listens
Listening(b) == IF proc = None THEN proc ELSE [proc EXCEPT ![b].listening = TRUE]

\* subprocess.Popen(cmd, stdin = PIPE), the config written to its stdin and
\* the stdin closed: the child runs and has not connected yet
Spawned(b) ==
    [proc EXCEPT ![b].pc = "spawned", ![b].stdin = ConfigWritten(ranges[b]),
                 ![b].stdin_closed = TRUE]

\* where run() is after WorkerProcess(...): about to enter `with worker`;
\* with an untracked child the spawn and the handshake are part of the step
AfterInit(b) ==
    IF proc = None
    THEN [sup EXCEPT ![b].pc = "recv", ![b].last_done = ranges[b][1]]
    ELSE [sup EXCEPT ![b].pc = "listening"]

\* channel.recv() can return m: it is the next message of the child
CanRecv(b, m) ==
    IF proc = None THEN TRUE ELSE proc[b].chan # <<>> /\ Head(proc[b].chan) = m

\* _recv reads 0 bytes: nothing is left and the child's end is closed
AtEof(b) ==
    IF proc = None THEN TRUE ELSE proc[b].chan = <<>> /\ proc[b].wconn = "closed"

\* the message was read
Received(b) == IF proc = None THEN proc ELSE [proc EXCEPT ![b].chan = Tail(@)]

\* worker.wait(): self._p.wait() returns once the child has exited
WaitCodes(b) ==
    IF proc = None THEN ExitCodes
    ELSE IF proc[b].pc = "exited" THEN {proc[b].exit[1]} ELSE {}

\* channel.send(msg) in the child; log keeps everything it has sent
Sent(b, m, pc) ==
    [proc EXCEPT ![b].chan = Append(@, m), ![b].log = Append(@, m), ![b].pc = pc]

\* a worker that skips the final message along with the render
WkBeginSkipsFinal(b) ==
    /\ proc[b].pc = "connected"
    /\ proc' = IF proc[b].overwrite \/ PartFile(b) \notin files
               THEN [proc EXCEPT ![b].pc = "render", ![b].rendered = TRUE]
               ELSE [proc EXCEPT ![b].pc = "finally"]
    /\ UNCHANGED <<rvars, cvars, props, summary_mutex, summary, state, jpc, num, results,
                   sup, outq, files, playlist, ran, ui_pc, work, panel, esc>>

\* render(): the arguments are read; with --overwrite or no output file yet
\* the handler is installed and the render starts, otherwise it is skipped
WkBegin(b) ==
    /\ proc[b].pc = "connected"
    /\ proc' = IF proc[b].overwrite \/ PartFile(b) \notin files
               THEN [proc EXCEPT ![b].pc = "render", ![b].rendered = TRUE]
               ELSE [proc EXCEPT ![b].pc = "final"]
    /\ UNCHANGED <<rvars, cvars, props, summary_mutex, summary, state, jpc, num, results,
                   sup, outq, files, playlist, ran, ui_pc, work, panel, esc>>

\* send_stats: channel.send({'current_frame': frame_current})
WkProgress(b) ==
    /\ proc[b].pc = "render"
    /\ proc[b].nsent < proc[b].limit
    /\ \E f \in WorkerFrames(b) :
          proc' = [Sent(b, [current_frame |-> f], "render") EXCEPT ![b].nsent = @ + 1]
    /\ UNCHANGED <<rvars, cvars, props, summary_mutex, summary, state, jpc, num, results,
                   sup, outq, files, playlist, ran, ui_pc, work, panel, esc>>

\* a render whose exception skips the finally clause
WkRenderedNoFinally(b) ==
    /\ proc[b].pc = "render"
    /\ \/ /\ proc' = [proc EXCEPT ![b].pc = "final"]
          /\ files' = files \cup {PartFile(b)}
       \/ /\ proc' = [proc EXCEPT ![b].pc = "closing", ![b].exc = TRUE]
          /\ files' = files
    /\ UNCHANGED <<rvars, cvars, props, summary_mutex, summary, state, jpc, num, results,
                   sup, outq, playlist, ran, ui_pc, work, panel, esc>>

\* bpy.ops.render.render returns, the output file written, or raises
WkRendered(b) ==
    /\ proc[b].pc = "render"
    /\ \/ /\ proc' = [proc EXCEPT ![b].pc = "final"]
          /\ files' = files \cup {PartFile(b)}
       \/ /\ proc' = [proc EXCEPT ![b].pc = "finally", ![b].exc = TRUE]
          /\ files' = files
    /\ UNCHANGED <<rvars, cvars, props, summary_mutex, summary, state, jpc, num, results,
                   sup, outq, playlist, ran, ui_pc, work, panel, esc>>

\* channel.send({'current_frame': scn.frame_end, 'output_file': outfile})
WkSendFinal(b) ==
    /\ proc[b].pc = "final"
    /\ proc' = Sent(b, [current_frame |-> ranges[b][2], output_file |-> PartFile(b)],
                    "finally")
    /\ UNCHANGED <<rvars, cvars, props, summary_mutex, summary, state, jpc, num, results,
                   sup, outq, files, playlist, ran, ui_pc, work, panel, esc>>

\* finally: channel.send(None)
WkSendSentinel(b) ==
    /\ proc[b].pc = "finally"
    /\ proc' = Sent(b, None, "closing")
    /\ UNCHANGED <<rvars, cvars, props, summary_mutex, summary, state, jpc, num, results,
                   sup, outq, files, playlist, ran, ui_pc, work, panel, esc>>

\* the exit codes of a Blender whose --python script ended with an exception:
\* 1 with --python-exit-code or a failed start-up, else 0
ScriptErrorCodes == {0, 1}

\* the `with channel` of render() ends: MessageChannel.__exit__ closes the
\* connection; then sys.exit(0), or the exception ends the script
WkExit(b) ==
    /\ proc[b].pc = "closing"
    /\ \E c \in IF proc[b].exc THEN ScriptErrorCodes ELSE {0} :
          proc' = [proc EXCEPT ![b].pc = "exited", ![b].wconn = "closed",
                               ![b].exit = Some(c)]
    /\ UNCHANGED <<rvars, cvars, props, summary_mutex, summary, state, jpc, num, results,
                   sup, outq, files, playlist, ran, ui_pc, work, panel, esc>>

\* the child is killed by a signal: its end of the connection is closed
WkKilled(b) ==
    /\ proc[b].pc \in {"connected", "render", "final", "finally", "closing"}
    /\ proc' = [proc EXCEPT ![b].pc = "exited", ![b].wconn = "closed",
                            ![b].exit = Some(-11)]
    /\ UNCHANGED <<rvars, cvars, props, summary_mutex, summary, state, jpc, num, results,
                   sup, outq, files, playlist, ran, ui_pc, work, panel, esc>>

\* run() has returned and its locals are dropped: nothing refers to the
\* accepted socket any more and its finalizer closes it
ConnFinalized(b) ==
    /\ sup[b].pc = "done"
    /\ proc[b].conn = "open"
    /\ proc' = [proc EXCEPT ![b].conn = "closed"]
    /\ UNCHANGED <<rvars, cvars, props, summary_mutex, summary, state, jpc, num, results,
                   sup, outq, files, playlist, ran, ui_pc, work, panel, esc>>

\* WorkerProcess.__enter__ up to accept(): Popen, the config written to the
\* child's stdin, the stdin closed, settimeout(30); Popen or the write may raise
SupSpawn(b) ==
    /\ sup[b].pc = "listening"
    /\ \/ /\ sup' = [sup EXCEPT ![b].pc = "accept"]
          /\ outq' = outq
          /\ proc' = Spawned(b)
       \/ /\ RunExcept(b)
          /\ proc' = proc
    /\ UNCHANGED <<rvars, cvars, props, summary_mutex, summary, state, jpc, num, results,
                   files, playlist, ran, ui_pc, work, panel, esc>>

\* read_config() in the child: json.load(sys.stdin), which returns at the end
\* of the input, then sck.connect(controller)
WkConnect(b) ==
    /\ proc[b].pc = "spawned"
    /\ proc[b].stdin_closed
    /\ LoadConfig(proc[b].stdin) # JsonError
    /\ proc' = [proc EXCEPT ![b].pc = "connected", ![b].wconn = "open"]
    /\ UNCHANGED <<rvars, cvars, props, summary_mutex, summary, state, jpc, num, results,
                   sup, outq, files, playlist, ran, ui_pc, work, panel, esc>>

\* the child ends or stalls before it connects (wrong binary, a crash while
\* the project loads): it never connects
WkNeverConnects(b) ==
    /\ proc[b].pc = "spawned"
    /\ proc' = [proc EXCEPT ![b].pc = "hung"]
    /\ UNCHANGED <<rvars, cvars, props, summary_mutex, summary, state, jpc, num, results,
                   sup, outq, files, playlist, ran, ui_pc, work, panel, esc>>

\* an accept() without self._sck.settimeout(30): it never gives up
SupAcceptTimeoutNever(b) ==
    /\ FALSE
    /\ sup[b].pc = "accept"
    /\ RunExcept(b)
    /\ proc' = proc
    /\ UNCHANGED <<rvars, cvars, props, summary_mutex, summary, state, jpc, num, results,
                   files, playlist, ran, ui_pc, work, panel, esc>>

\* conn, _addr = self._sck.accept() raises socket.timeout: nothing connected
\* within the 30 s; except Exception: res = -1. The child is left on its own.
SupAcceptTimeout(b) ==
    /\ sup[b].pc = "accept"
    /\ proc[b].wconn = "none"
    /\ RunExcept(b)
    /\ proc' = [proc EXCEPT ![b].pc = "hung"]
    /\ UNCHANGED <<rvars, cvars, props, summary_mutex, summary, state, jpc, num, results,
                   files, playlist, ran, ui_pc, work, panel, esc>>

\* conn, _addr = self._sck.accept() returns the child's connection; return
\* MessageChannel(conn); msgs = iter(channel.recv, None); last_done = rng[0]
SupAccept(b) ==
    /\ sup[b].pc = "accept"
    /\ proc[b].wconn # "none"
    /\ sup' = [sup EXCEPT ![b].pc = "recv", ![b].last_done = ranges[b][1]]
    /\ proc' = [proc EXCEPT ![b].conn = "open"]
    /\ UNCHANGED <<rvars, cvars, props, summary_mutex, summary, state, jpc, num, results,
                   outq, files, playlist, ran, ui_pc, work, panel, esc>>

\* the steps of the handshake, taken only with a tracked child
HandshakeNext ==
    \/ \E b \in Batches : SupSpawn(b)
    \/ \E b \in Batches : SupAccept(b)
    \/ \E b \in Batches : SupAcceptTimeout(b)

WorkerNext ==
    \/ \E b \in Batches : ConnFinalized(b)
    \/ \E b \in Batches : WkConnect(b)
    \/ \E b \in Batches : WkNeverConnects(b)
    \/ \E b \in Batches : WkBegin(b)
    \/ \E b \in Batches : WkProgress(b)
    \/ \E b \in Batches : WkRendered(b)
    \/ \E b \in Batches : WkSendFinal(b)
    \/ \E b \in Batches : WkSendSentinel(b)
    \/ \E b \in Batches : WkExit(b)
    \/ \E b \in Batches : WkKilled(b)

\* a pool that starts a thread for every task
PoolHasIdleThreadAlways(n) == TRUE

\* Pool(props.max_parallel): one of its n threads is not inside run()
PoolHasIdleThread(n) == Cardinality({a \in Batches : Active(a)}) < n

\* a counter that starts at 0
EnumerateFromZero(n) == n

\* enumerate(pending, 1): the number that goes with the item after n items
Enumerate(n) == n + 1

\* a pool thread takes the next task and enters run(): the state check, then
\* WorkerProcess(...) (bind, listen), which may raise
SupStart(b) ==
    /\ jpc \in {"collect", "report"}
    /\ sup[b].pc = "todo"
    /\ \A a \in 1..(b - 1) : sup[a].pc # "todo"
    /\ PoolHasIdleThread(props.max_parallel)
    /\ IF state = "RUNNING"
       THEN \/ /\ sup' = AfterInit(b)
               /\ outq' = outq
               /\ proc' = Listening(b)
            \/ /\ RunExcept(b)
               /\ proc' = proc
       ELSE /\ Return(b, None, None)
            /\ proc' = proc
    /\ UNCHANGED <<rvars, props, summary_mutex, summary, state, jpc, num, results, files,
                   playlist, ran, ui_pc>>
    /\ UNCHANGED <<cvars, work, panel, esc>>

\* for msg in msgs: channel.recv() returns a progress message of the worker
SupRecvProgress(b) ==
    /\ sup[b].pc = "recv"
    /\ ProgressAllowed(b)
    /\ "output_file" \notin DOMAIN sup[b].msg
    /\ \E f \in WorkerFrames(b) :
          /\ CanRecv(b, [current_frame |-> f])
          /\ sup' = [sup EXCEPT ![b].pc = "credit",
                                ![b].msg = [current_frame |-> f],
                                ![b].frame_done = f,
                                ![b].nprog = @ + 1]
    /\ proc' = Received(b)
    /\ UNCHANGED <<rvars, props, summary_mutex, summary, state, jpc, num, results, outq,
                   files, playlist, ran, ui_pc>>
    /\ UNCHANGED <<cvars, work, panel, esc>>

\* channel.recv() returns the worker's final message:
\* {'current_frame': scn.frame_end, 'output_file': outfile}; the part file exists
SupRecvFinal(b) ==
    /\ sup[b].pc = "recv"
    /\ "output_file" \notin DOMAIN sup[b].msg
    /\ CanRecv(b, [current_frame |-> ranges[b][2], output_file |-> PartFile(b)])
    /\ sup' = [sup EXCEPT ![b].pc = "credit",
                          ![b].msg = [current_frame |-> ranges[b][2],
                                      output_file |-> PartFile(b)],
                          ![b].frame_done = ranges[b][2]]
    /\ files' = files \cup {PartFile(b)}
    /\ proc' = Received(b)
    /\ UNCHANGED <<rvars, props, summary_mutex, summary, state, jpc, num, results, outq,
                   playlist, ran, ui_pc>>
    /\ UNCHANGED <<cvars, work, panel, esc>>

\* a progress loop that gives up once the job is no longer RUNNING
SupRecvSentinelIfRunning(b) ==
    /\ sup[b].pc = "recv"
    /\ state = "RUNNING"
    /\ CanRecv(b, None)
    /\ sup' = [sup EXCEPT ![b].pc = "final"]
    /\ proc' = Received(b)
    /\ UNCHANGED <<rvars, props, summary_mutex, summary, state, jpc, num, results, outq,
                   files, playlist, ran, ui_pc>>
    /\ UNCHANGED <<cvars, work, panel, esc>>

\* channel.recv() returns None: the worker's channel.send(None)
SupRecvSentinel(b) ==
    /\ sup[b].pc = "recv"
    /\ CanRecv(b, None)
    /\ sup' = [sup EXCEPT ![b].pc = "final"]
    /\ proc' = Received(b)
    /\ UNCHANGED <<rvars, props, summary_mutex, summary, state, jpc, num, results, outq,
                   files, playlist, ran, ui_pc>>
    /\ UNCHANGED <<cvars, work, panel, esc>>

\* a recv() that takes the end of the connection for the sentinel
SupRecvErrorAsSentinel(b) ==
    /\ sup[b].pc = "recv"
    /\ AtEof(b)
    /\ sup' = [sup EXCEPT ![b].pc = "final"]
    /\ UNCHANGED <<rvars, props, summary_mutex, summary, state, jpc, num, results, outq,
                   files, playlist, ran, ui_pc>>
    /\ UNCHANGED NotJob

\* channel.recv() raises (the connection ended without a sentinel)
SupRecvError(b) ==
    /\ sup[b].pc = "recv"
    /\ AtEof(b)
    /\ RunExcept(b)
    /\ UNCHANGED <<rvars, props, summary_mutex, summary, state, jpc, num, results, files,
                   playlist, ran, ui_pc>>
    /\ UNCHANGED NotJob

\* with self.summary_mutex: the lock is taken and frames_done is read
SupLock(b) ==
    /\ sup[b].pc \in {"credit", "final"}
    /\ CanAcquire(summary_mutex)
    /\ summary_mutex' = Locked
    /\ sup' = [sup EXCEPT ![b].pc = IF @ = "credit" THEN "credit_w" ELSE "final_w",
                          ![b].tmp = summary.frames_done]
    /\ UNCHANGED <<rvars, props, summary, state, jpc, num, results, outq, files, playlist,
                   ran, ui_pc>>
    /\ UNCHANGED NotJob

\* self.summary['frames_done'] += (frame_done - last_done); the lock is
\* released; last_done = frame_done
SupCredit(b) ==
    /\ sup[b].pc = "credit_w"
    /\ summary' = [summary EXCEPT
                      !.frames_done = sup[b].tmp + (sup[b].frame_done - sup[b].last_done)]
    /\ summary_mutex' = Unlocked
    /\ sup' = [sup EXCEPT ![b].pc = "recv", ![b].last_done = sup[b].frame_done,
                          ![b].tmp = 0]
    /\ UNCHANGED <<rvars, props, state, jpc, num, results, outq, files, playlist, ran,
                   ui_pc>>
    /\ UNCHANGED NotJob

\* self.summary['frames_done'] += 1; the lock is released; then status_msg and
\* output_file from the last message (UnboundLocalError when there was none,
\* KeyError when it carries no output_file), res = worker.wait()
SupFinish(b) ==
    /\ sup[b].pc = "final_w"
    /\ summary' = [summary EXCEPT !.frames_done = sup[b].tmp + 1]
    /\ summary_mutex' = Unlocked
    /\ IF sup[b].msg = None \/ "output_file" \notin DOMAIN sup[b].msg
       THEN RunExcept(b)
       ELSE \E rc \in WaitCodes(b) : Return(b, Some(rc), sup[b].msg.output_file)
    /\ UNCHANGED <<rvars, props, state, jpc, num, results, files, playlist, ran, ui_pc>>
    /\ UNCHANGED NotJob

\* for num, res in enumerate(pending, 1): with self.summary_mutex:
\* self.summary['batches_done'] = num; results[res.range] = res
JobCollect ==
    /\ jpc = "collect"
    /\ outq # <<>>
    /\ CanAcquire(summary_mutex)
    /\ num' = num + 1
    /\ summary' = [summary EXCEPT !.batches_done = Enumerate(num)]
    /\ results' = (Head(outq).range :> Head(outq)) @@ results
    /\ outq' = Tail(outq)
    /\ jpc' = "report"
    /\ UNCHANGED <<rvars, props, summary_mutex, state, sup, files, playlist, ran, ui_pc>>
    /\ UNCHANGED NotJob

\* a loop that ends with the first result
LoopEndsEarly(n) == n >= 1

\* for num, res in enumerate(pending, 1): imap_unordered is exhausted when it
\* has yielded one result per command
LoopEnds(n) == n = summary.batches

\* self._report_progress(); if any(res.rc not in (0, None) ...): self.state = FAILED
\* and the loop ends when imap_unordered has yielded every result
JobReport ==
    /\ jpc = "report"
    /\ CanAcquire(summary_mutex)
    /\ state' = IF AnyFailing(results) THEN "FAILED" ELSE state
    /\ jpc' = IF LoopEnds(num) THEN "after_loop" ELSE "collect"
    /\ UNCHANGED <<rvars, props, summary_mutex, summary, num, results, sup, outq, files,
                   playlist, ran, ui_pc>>
    /\ UNCHANGED NotJob

\* self._report_progress() after the loop; the pool is closed
JobAfterLoop ==
    /\ jpc = "after_loop"
    /\ CanAcquire(summary_mutex)
    /\ jpc' = "mixdown_check"
    /\ UNCHANGED <<rvars, props, summary_mutex, summary, state, num, results, sup, outq,
                   files, playlist, ran, ui_pc>>
    /\ UNCHANGED NotJob

\* if self.state == self.state.RUNNING and props.mixdown:
JobMixdownCheck ==
    /\ jpc = "mixdown_check"
    /\ \E v \in PanelRead("mixdown") : props' = ("mixdown" :> v) @@ props
    /\ jpc' = IF state = "RUNNING" /\ props'.mixdown THEN "mixdown_set" ELSE "concat_check"
    /\ UNCHANGED <<rvars, summary_mutex, summary, state, num, results, sup, outq,
                   files, playlist, ran, ui_pc>>
    /\ UNCHANGED NotJob

\* self.state = ParallelRenderState.MIXDOWN
JobMixdownSet ==
    /\ jpc = "mixdown_set"
    /\ state' = "MIXDOWN"
    /\ jpc' = "mixdown_run"
    /\ UNCHANGED <<rvars, props, summary_mutex, summary, num, results, sup, outq, files,
                   playlist, ran, ui_pc>>
    /\ UNCHANGED NotJob

\* with self.summary_mutex: bpy.ops.sound.mixdown(filepath = sound_path),
\* which writes the sound file or raises (the exception ends the thread)
JobMixdownRun ==
    /\ jpc = "mixdown_run"
    /\ CanAcquire(summary_mutex)
    /\ ran' = ran \cup {"mixdown"}
    /\ \/ /\ files' = files \cup {SoundFile}
          /\ jpc' = "mixdown_done"
       \/ /\ files' = files
          /\ jpc' = "died"
    /\ UNCHANGED <<rvars, props, summary_mutex, summary, state, num, results, sup, outq,
                   playlist, ui_pc>>
    /\ UNCHANGED NotJob

\* self._report_progress(); self.state = ParallelRenderState.RUNNING
JobMixdownDone ==
    /\ jpc = "mixdown_done"
    /\ CanAcquire(summary_mutex)
    /\ state' = "RUNNING"
    /\ jpc' = "concat_check"
    /\ UNCHANGED <<rvars, props, summary_mutex, summary, num, results, sup, outq, files,
                   playlist, ran, ui_pc>>
    /\ UNCHANGED NotJob

\* if self.state == ParallelRenderState.RUNNING and props.concatenate:
JobConcatCheck ==
    /\ jpc = "concat_check"
    /\ \E v \in PanelRead("concatenate") : props' = ("concatenate" :> v) @@ props
    /\ jpc' = IF state = "RUNNING" /\ props'.concatenate THEN "concat_set"
              ELSE "cleanup_check"
    /\ UNCHANGED <<rvars, summary_mutex, summary, state, num, results, sup, outq,
                   files, playlist, ran, ui_pc>>
    /\ UNCHANGED NotJob

\* self.state = ParallelRenderState.CONCATENATE
JobConcatSet ==
    /\ jpc = "concat_set"
    /\ state' = "CONCATENATE"
    /\ jpc' = "concat_run"
    /\ UNCHANGED <<rvars, props, summary_mutex, summary, num, results, sup, outq, files,
                   playlist, ran, ui_pc>>
    /\ UNCHANGED NotJob

\* the order of two keys of results in sorted(results.items()): tuples of
\* (frame_start, frame_end) compare by their first element, then the second
RangeLess(x, y) == x[1] < y[1] \/ (x[1] = y[1] /\ x[2] < y[2])

RECURSIVE SortedRanges(_)
\* the keys of sorted(results.items())
SortedRanges(S) ==
    IF S = {} THEN <<>>
    ELSE LET m == CHOOSE x \in S : \A y \in S \ {x} : RangeLess(x, y)
         IN  <<m>> \o SortedRanges(S \ {m})

\* for range, res in sorted(results.items()): data.write("file '{}'".format(
\* res.output_file)): the paths of the playlist, line by line
PlaylistLines(rs) ==
    [i \in 1..Cardinality(DOMAIN rs) |-> rs[SortedRanges(DOMAIN rs)[i]].output_file]

\* a concatenation whose result is ignored
ConcatStateAlwaysRunning(res) == "RUNNING"

\* if res == 0: self.state = self.state.RUNNING else: self.state = self.state.FAILED
ConcatState(res) == IF res = 0 THEN "RUNNING" ELSE "FAILED"

\* the playlist is written, res = subprocess.call(cmd): on 0 the output file
\* exists and the state is RUNNING, otherwise FAILED; subprocess.call may
\* raise (no such executable), which ends the thread
JobConcatRun ==
    /\ jpc = "concat_run"
    /\ ran' = ran \cup {"concatenate"}
    /\ playlist' = PlaylistFile
    /\ \/ \E res \in ExitCodes :
             /\ files' = files \cup {PlaylistFile} \cup (IF res = 0 THEN {OutFile} ELSE {})
             /\ state' = ConcatState(res)
             /\ jpc' = "cleanup_check"
       \/ /\ files' = files \cup {PlaylistFile}
          /\ state' = state
          /\ jpc' = "died"
    /\ UNCHANGED <<rvars, props, summary_mutex, summary, num, results, sup, outq, ui_pc>>
    /\ UNCHANGED NotJob

\* if self.state == ParallelRenderState.RUNNING and props.clean_up_parts:
JobCleanupCheck ==
    /\ jpc = "cleanup_check"
    /\ \E v \in PanelRead("clean_up_parts") : props' = ("clean_up_parts" :> v) @@ props
    /\ jpc' = IF state = "RUNNING" /\ props'.clean_up_parts THEN "cleanup_set" ELSE "done"
    /\ UNCHANGED <<rvars, summary_mutex, summary, state, num, results, sup, outq,
                   files, playlist, ran, ui_pc>>
    /\ UNCHANGED NotJob

\* self.state = ParallelRenderState.CLEANING
JobCleanupSet ==
    /\ jpc = "cleanup_set"
    /\ state' = "CLEANING"
    /\ jpc' = "cleanup_run"
    /\ UNCHANGED <<rvars, props, summary_mutex, summary, num, results, sup, outq, files,
                   playlist, ran, ui_pc>>
    /\ UNCHANGED NotJob

OutputFiles(rs) == {rs[k].output_file : k \in DOMAIN rs}

\* os.unlink(concatenate_files.name); os.unlink(sound_path); for res in
\* results.values(): os.unlink(res.output_file); self.state = RUNNING.
\* An unbound concatenate_files, a missing file or an output_file of None
\* raises and ends the thread after the unlinks before it.
JobCleanupRun ==
    /\ jpc = "cleanup_run"
    /\ ran' = ran \cup {"cleanup"}
    /\ IF playlist = None \/ playlist \notin files
       THEN /\ files' = files
            /\ state' = state
            /\ jpc' = "died"
       ELSE IF SoundFile \notin files
       THEN /\ files' = files \ {playlist}
            /\ state' = state
            /\ jpc' = "died"
       ELSE IF ~(OutputFiles(results) \subseteq files)
       THEN /\ files' \in {files \ ({playlist, SoundFile} \cup D) :
                              D \in SUBSET (OutputFiles(results) \cap files)}
            /\ state' = state
            /\ jpc' = "died"
       ELSE /\ files' = files \ ({playlist, SoundFile} \cup OutputFiles(results))
            /\ state' = "RUNNING"
            /\ jpc' = "done"
    /\ UNCHANGED <<rvars, props, summary_mutex, summary, num, results, sup, outq, playlist,
                   ui_pc>>
    /\ UNCHANGED NotJob

\* a modal() that ignores the ESC event
UiEscapeDropped ==
    /\ ui_pc = "idle"
    /\ esc' = TRUE
    /\ IF summary_mutex = None
       THEN UNCHANGED <<state, ui_pc>>
       ELSE /\ state' = state
            /\ ui_pc' = "report"
    /\ UNCHANGED <<rvars, props, summary_mutex, summary, jpc, num, results, sup, outq, files,
                   playlist, ran>>
    /\ UNCHANGED <<cvars, work, panel, proc>>

\* modal() is handed an ESC event: PASS_THROUGH while summary_mutex is None,
\* otherwise self.state = ParallelRenderState.CANCELLING
UiEscape ==
    /\ ui_pc = "idle"
    /\ esc' = TRUE
    /\ IF summary_mutex = None
       THEN UNCHANGED <<state, ui_pc>>
       ELSE /\ state' = "CANCELLING"
            /\ ui_pc' = "report"
    /\ UNCHANGED <<rvars, props, summary_mutex, summary, jpc, num, results, sup, outq, files,
                   playlist, ran>>
    /\ UNCHANGED <<cvars, work, panel, proc>>

\* modal(): self._report_progress() takes the lock and reads self.summary
\* (AttributeError while the job thread has not set it)
UiReport ==
    /\ ui_pc = "report"
    /\ CanAcquire(summary_mutex)
    /\ ui_pc' = IF summary = None THEN "error" ELSE "idle"
    /\ UNCHANGED <<rvars, props, summary_mutex, summary, state, jpc, num, results, sup, outq,
                   files, playlist, ran>>
    /\ UNCHANGED NotJob

\* self.thread.is_alive(): the job thread has not left _run
is_alive(pc) == pc \notin {"returned", "raised"}

\* if still_running: progress_update, _report_progress, PASS_THROUGH;
\* otherwise join, event_timer_remove, progress_end, FINISHED
TimerResult(alive) == IF alive THEN "describe" ELSE "finished"

\* modal() is handed a TIMER event: PASS_THROUGH while summary_mutex is None,
\* otherwise still_running = self.thread.is_alive() and, under the lock,
\* percent = 100.0 * summary['batches_done'] / summary['batches']
\* (AttributeError while the job thread has not set summary, ZeroDivisionError
\* for no batches). An exception
\* leaves modal() and ends the operator.
UiTimer ==
    /\ ui_pc = "idle"
    /\ IF summary_mutex = None
       THEN ui_pc' = ui_pc
       ELSE /\ CanAcquire(summary_mutex)
            /\ ui_pc' = IF summary = None THEN "error"
                        ELSE IF summary.batches = 0 THEN "error"
                        ELSE TimerResult(is_alive(jpc))
    /\ UNCHANGED <<rvars, props, summary_mutex, summary, state, jpc, num, results, sup, outq,
                   files, playlist, ran>>
    /\ UNCHANGED <<cvars, work, panel, esc, proc>>

\* _report_progress() of a timer tick: rep_type, action = self.state.describe()
\* (AttributeError while the state is None), then the report under the lock
UiDescribe ==
    /\ ui_pc = "describe"
    /\ ui_pc' = IF state = "None" THEN "error" ELSE "report"
    /\ UNCHANGED <<rvars, props, summary_mutex, summary, state, jpc, num, results, sup, outq,
                   files, playlist, ran>>
    /\ UNCHANGED <<cvars, work, panel, esc, proc>>

\* the window manager's timer (event_timer_add(0.5, ...)) and the modal
\* handler it drives
TimerNext == UiTimer \/ UiDescribe

(***************************************************************************)
(* The add-on preferences and the panel: ParallelRenderPreferences.update, *)
(* ParallelRenderPropertyGroup.update and the assignments that call them.  *)
(***************************************************************************)
\* what the path in ffmpeg_executable points at
ExeKinds == {"missing", "directory", "not_executable", "executable"}

\* _is_valid_ffmpeg_executable: the error text, None for a valid path
is_valid_ffmpeg_executable(path) ==
    IF path = "missing" THEN Some("does not exist")
    ELSE IF path = "directory" THEN Some("is not a file")
    ELSE IF path = "not_executable" THEN Some("is not executable")
    ELSE None

\* an update that turns concatenate off and leaves clean_up_parts as it is
PanelUpdateKeepsCleanUp(p) ==
    IF ~p.ffmpeg_valid /\ p.concatenate THEN [p EXCEPT !.concatenate = FALSE] ELSE p

\* ParallelRenderPropertyGroup.update
PanelUpdate(p) ==
    LET q == IF ~p.ffmpeg_valid /\ p.concatenate
             THEN [p EXCEPT !.concatenate = FALSE, !.clean_up_parts = FALSE]
             ELSE p
    IN  IF ~q.concatenate THEN [q EXCEPT !.clean_up_parts = FALSE] ELSE q

\* ParallelRenderPreferences.update
PrefsUpdate(p) ==
    IF is_valid_ffmpeg_executable(p.ffmpeg_executable) = None
    THEN [p EXCEPT !.ffmpeg_valid = TRUE]
    ELSE PanelUpdate([p EXCEPT !.ffmpeg_valid = FALSE])

\* the defaults of the properties: ffmpeg_executable "", ffmpeg_valid False,
\* mixdown True, concatenate and clean_up_parts False
PanelDefault ==
    [ffmpeg_executable |-> "missing", ffmpeg_valid |-> FALSE, mixdown |-> TRUE,
     concatenate |-> FALSE, clean_up_parts |-> FALSE]

\* ffmpeg_executable is assigned: its update callback runs
PrefsSetExecutable(k) ==
    /\ panel # None
    /\ panel' = PrefsUpdate([panel EXCEPT !.ffmpeg_executable = k])
    /\ UNCHANGED <<rvars, cvars, props, summary_mutex, summary, state, jpc, num, results,
                   sup, outq, files, playlist, ran, ui_pc, work, esc, proc>>

\* concatenate is assigned: its update callback runs
PanelSetConcatenate(v) ==
    /\ panel # None
    /\ panel' = PanelUpdate([panel EXCEPT !.concatenate = v])
    /\ UNCHANGED <<rvars, cvars, props, summary_mutex, summary, state, jpc, num, results,
                   sup, outq, files, playlist, ran, ui_pc, work, esc, proc>>

\* clean_up_parts is assigned: the property has no update callback
PanelSetCleanUpParts(v) ==
    /\ panel # None
    /\ panel' = [panel EXCEPT !.clean_up_parts = v]
    /\ UNCHANGED <<rvars, cvars, props, summary_mutex, summary, state, jpc, num, results,
                   sup, outq, files, playlist, ran, ui_pc, work, esc, proc>>

\* mixdown is assigned: the property has no update callback
PanelSetMixdown(v) ==
    /\ panel # None
    /\ panel' = [panel EXCEPT !.mixdown = v]
    /\ UNCHANGED <<rvars, cvars, props, summary_mutex, summary, state, jpc, num, results,
                   sup, outq, files, playlist, ran, ui_pc, work, esc, proc>>

PanelNext ==
    \/ \E k \in ExeKinds : PrefsSetExecutable(k)
    \/ \E v \in BOOLEAN : PanelSetConcatenate(v)
    \/ \E v \in BOOLEAN : PanelSetCleanUpParts(v)
    \/ \E v \in BOOLEAN : PanelSetMixdown(v)

SupNext ==
    \/ \E b \in Batches : SupStart(b)
    \/ \E b \in Batches : SupRecvProgress(b)
    \/ \E b \in Batches : SupRecvFinal(b)
    \/ \E b \in Batches : SupRecvSentinel(b)
    \/ \E b \in Batches : SupRecvError(b)
    \/ \E b \in Batches : SupLock(b)
    \/ \E b \in Batches : SupCredit(b)
    \/ \E b \in Batches : SupFinish(b)

JobNext ==
    \/ JobEnter
    \/ JobExit
    \/ JobMakeMutex
    \/ JobMakeSummary
    \/ JobSetRunning
    \/ JobCollect
    \/ JobReport
    \/ JobAfterLoop
    \/ JobMixdownCheck
    \/ JobMixdownSet
    \/ JobMixdownRun
    \/ JobMixdownDone
    \/ JobConcatCheck
    \/ JobConcatSet
    \/ JobConcatRun
    \/ JobCleanupCheck
    \/ JobCleanupSet
    \/ JobCleanupRun

UiNext == UiEscape \/ UiReport

Next == JobNext \/ SupNext \/ UiNext

(***************************************************************************)
(* Specifications                                                          *)
(***************************************************************************)
vars == <<rvars, cvars, dvars>>

RangesIdle == scn = None /\ ranges = <<>> /\ rpc = "idle"

RangesNext == MakeRanges

InitRanges == RangesInit /\ ChannelInit /\ JobIdle

SpecRanges == InitRanges /\ [][RangesNext]_vars

\* a scene whose frame_end lies before its frame_start
InvalidScenes == {s \in Scenes : s.frame_end < s.frame_start}

InitInvalid ==
    /\ scn \in InvalidScenes
    /\ ranges = <<>>
    /\ rpc = "start"
    /\ ChannelInit
    /\ JobIdle

SpecInvalid == InitInvalid /\ [][RangesNext]_vars

InitChannel == RangesIdle /\ ChannelInit /\ JobIdle

SpecChannel == InitChannel /\ [][ChannelNext]_vars

Init == JobInit /\ ChannelInit

Spec == Init /\ [][Next]_vars

\* one batch of JobLen frames
RunScenes == {s \in JobScenes : s.batch_type = "parts" /\ s.parts = 1}

\* a project with or without unsaved changes, the panel at its defaults
InitRun ==
    /\ JobStart(RunScenes, {WorkNew(d) : d \in BOOLEAN}, {PanelDefault}, {None}, {{}})
    /\ ChannelInit

NextRun == Next \/ PanelNext

SpecRun == InitRun /\ [][NextRun]_vars

\* one batch on a saved project; its child is tracked, with either value of
\* --overwrite and with or without an output file of an earlier run
InitWorker ==
    /\ JobStart(RunScenes, {WorkNew(FALSE)}, {None},
                {<<ProcNew(o, MaxProgress)>> : o \in BOOLEAN}, {{}, {PartFile(1)}})
    /\ ChannelInit

NextWorker == Next \/ HandshakeNext \/ WorkerNext

SpecWorker == InitWorker /\ [][NextWorker]_vars

\* one batch whose child renders and sends up to MaxSent progress messages
InitReports ==
    /\ JobStart(RunScenes, {WorkNew(FALSE)}, {None}, {<<ProcNew(TRUE, MaxSent)>>}, {{}})
    /\ ChannelInit

SpecReports == InitReports /\ [][NextWorker]_vars

\* the child process, the pool's threads and the job thread are scheduled by
\* the operating system: each keeps running while it can take a step
SpecWorkerFair ==
    InitWorker /\ [][NextWorker]_vars
        /\ WF_vars(WorkerNext) /\ WF_vars(HandshakeNext) /\ WF_vars(SupNext)
        /\ WF_vars(JobNext)

\* one batch on a saved project with a tracked child, and the modal handler
\* with its timer
InitObserver ==
    /\ JobStart(RunScenes, {WorkNew(FALSE)}, {None}, {<<ProcNew(TRUE, MaxProgress)>>}, {{}})
    /\ ChannelInit

NextObserver == NextWorker \/ TimerNext

SpecObserver == InitObserver /\ [][NextObserver]_vars

\* as SpecWorkerFair; the timer fires every 0.5 s and the window manager
\* hands each of its events to the modal handler, whatever other events
\* (ESC) it handles in between
SpecObserverFair ==
    InitObserver /\ [][NextObserver]_vars
        /\ WF_vars(WorkerNext) /\ WF_vars(HandshakeNext) /\ WF_vars(SupNext)
        /\ WF_vars(JobNext) /\ SF_vars(TimerNext) /\ WF_vars(UiReport)

(***************************************************************************)
(* Properties of the Range Partitioner (checked under SpecRanges)          *)
(***************************************************************************)
Size(r) == r[2] - r[1] + 1

Contiguous(rs) == \A i \in 1..(Len(rs) - 1) : rs[i + 1][1] = rs[i][2] + 1

OrderedByStart(rs) == \A i \in 1..(Len(rs) - 1) : rs[i][1] < rs[i + 1][1]

NoEmptyRange(rs) == \A i \in 1..Len(rs) : rs[i][1] <= rs[i][2]

CoversOnce(rs, first, last) ==
    /\ \A f \in first..last :
          Cardinality({i \in 1..Len(rs) : rs[i][1] <= f /\ f <= rs[i][2]}) = 1
    /\ \A i \in 1..Len(rs) : first <= rs[i][1] /\ rs[i][2] <= last

PartsDone == rpc = "done" /\ scn.batch_type = "parts" /\ scn.frame_start <= scn.frame_end

FixedDone == rpc = "done" /\ scn.batch_type = "fixed" /\ scn.frame_start <= scn.frame_end

IntervalLength == scn.frame_end - scn.frame_start + 1

\* C1: for frame_start <= frame_end and parts >= 1 the ranges of the N-parts
\* partitioner are ordered by start, contiguous, start at frame_start, end at
\* frame_end, contain no empty range, cover every frame of the interval
\* exactly once and number at most `parts`.
C1_PartsPartition ==
    PartsDone =>
        /\ Len(ranges) >= 1
        /\ Len(ranges) <= scn.parts
        /\ OrderedByStart(ranges)
        /\ Contiguous(ranges)
        /\ NoEmptyRange(ranges)
        /\ ranges[1][1] = scn.frame_start
        /\ ranges[Len(ranges)][2] = scn.frame_end
        /\ CoversOnce(ranges, scn.frame_start, scn.frame_end)

\* A run of the N-parts partitioner that cut the interval into three pieces
\* of unequal size.
C1_Witness ==
    /\ PartsDone
    /\ Len(ranges) = 3
    /\ Size(ranges[1]) # Size(ranges[2])

\* C2: for frame_start <= frame_end and increment >= 1 the ranges of the
\* fixed-size partitioner are ordered, contiguous, cover every frame exactly
\* once; every range but the last has increment+1 frames, the last has
\* between 1 and increment+1 frames and ends at frame_end.
C2_FixedPartition ==
    FixedDone =>
        /\ Len(ranges) >= 1
        /\ OrderedByStart(ranges)
        /\ Contiguous(ranges)
        /\ CoversOnce(ranges, scn.frame_start, scn.frame_end)
        /\ \A i \in 1..(Len(ranges) - 1) : Size(ranges[i]) = scn.fixed + 1
        /\ Size(ranges[Len(ranges)]) >= 1
        /\ Size(ranges[Len(ranges)]) <= scn.fixed + 1
        /\ ranges[Len(ranges)][2] = scn.frame_end

\* A run of the fixed-size partitioner with two full batches and a shorter
\* last one.
C2_Witness ==
    /\ FixedDone
    /\ Len(ranges) = 3
    /\ Size(ranges[3]) < scn.fixed + 1

\* C3: when the interval length is at most `parts` the N-parts partitioner
\* yields exactly the one range (frame_start, frame_end); a single-frame
\* interval therefore yields one range.
C3_PartsCollapse ==
    (PartsDone /\ IntervalLength <= scn.parts) =>
        ranges = << <<scn.frame_start, scn.frame_end>> >>

\* A collapsed run over more than one frame with parts above the length.
C3_Witness ==
    /\ PartsDone
    /\ IntervalLength = 2
    /\ scn.parts = 3
    /\ Len(ranges) = 1

\* C4: when the interval length exceeds `parts`, exactly `parts` ranges are
\* produced and the sizes of any two differ by at most one frame.
C4_PartsBalanced ==
    (PartsDone /\ IntervalLength > scn.parts) =>
        /\ Len(ranges) = scn.parts
        /\ \A i, j \in 1..Len(ranges) : Size(ranges[i]) - Size(ranges[j]) <= 1

\* A run whose length is not a multiple of parts: sizes 1 and 2 both occur.
C4_Witness ==
    /\ PartsDone
    /\ scn.parts = 3
    /\ IntervalLength = 5
    /\ \E i, j \in 1..Len(ranges) : Size(ranges[i]) = Size(ranges[j]) + 1

(***************************************************************************)
(* Properties of the Message Channel (checked under SpecChannel)           *)
(***************************************************************************)
WholeFrames == {i \in 1..Len(sent) : sent[i].via # "cut"}

\* every byte written has been read and recv() is not inside a frame
Drained == wire = <<>> /\ (rx.pc = "idle" \/ (rx.pc = "size" /\ rx.buf = <<>>))

\* C5: successive recv() calls return exactly the payloads sent with send(),
\* in order, however the stream is cut into short reads; send(None) makes
\* recv() return None; recv() fails only when the connection was closed.
C5_RoundTrip ==
    /\ Len(rx.delivered) <= Cardinality(WholeFrames)
    /\ \A i \in 1..Len(rx.delivered) : rx.delivered[i] = sent[i].msg
    /\ rx.pc = "raised" => wclosed
    /\ (Drained /\ WholeFrames = 1..Len(sent)) => Len(rx.delivered) = Len(sent)

\* Two frames sent with send(), a message with an output file and then the
\* sentinel, both returned by recv() after at least one short read.
C5_Witness ==
    /\ Len(rx.delivered) = 2
    /\ sent[1].via = "send" /\ sent[2].via = "send"
    /\ rx.delivered[1] \in Payloads
    /\ "output_file" \in DOMAIN rx.delivered[1]
    /\ rx.delivered[2] = None
    /\ rx.short

C7_ClosedMidFrame ==
    /\ [](Len(rx.delivered) <= Cardinality(WholeFrames))
    /\ [][(rx.pc \in {"size", "body"} /\ wire = <<>> /\ wclosed)
            => (rx'.pc = "raised" /\ rx'.delivered = rx.delivered)]_vars
    /\ [][rx.pc = "raised" => rx' = rx]_vars

\* recv() raised after the whole length prefix and a part of the declared
\* payload of a cut frame had been read.
C7_Witness ==
    /\ rx.pc = "raised"
    /\ Len(sent) >= 1
    /\ sent[Len(sent)].via = "cut"
    /\ Len(sent[Len(sent)].frame) > MSG_SIZE_SIZE
    /\ rx.size = Unpack(SubSeq(sent[Len(sent)].frame, 1, MSG_SIZE_SIZE))
    /\ Len(rx.buf) = Len(sent[Len(sent)].frame) - MSG_SIZE_SIZE
    /\ Len(rx.buf) < rx.size

(***************************************************************************)
(* Properties of the dispatcher (checked under Spec)                       *)
(***************************************************************************)
\* the collect loop over imap_unordered has ended
LoopEnded ==
    /\ summary # None
    /\ num = summary.batches
    /\ jpc \notin {"enter", "new", "mk_summary", "set_running", "collect", "report"}

RangeSet == {ranges[b] : b \in Batches}

\* every batch has a collected result with exit code 0: its worker sent its
\* final message (current_frame = end of the range), then the sentinel, and
\* exited 0
AllSucceeded ==
    \A b \in Batches : ranges[b] \in DOMAIN results /\ results[ranges[b]].rc = <<0>>

\* C8: when every worker reports its progress, its final message and the
\* sentinel and exits 0, then once all results are collected
\* frames_done = frames and batches_done = batches, under every interleaving
\* of the supervisors' updates.
C8_Aggregation ==
    (LoopEnded /\ AllSucceeded) =>
        /\ summary.frames_done = summary.frames
        /\ summary.batches_done = summary.batches

\* Two batches rendered by a pool of two supervisors, both successful.
C8_Witness ==
    /\ LoopEnded
    /\ AllSucceeded
    /\ Len(ranges) = 2
    /\ props.max_parallel = 2
    /\ summary.frames_done = 3

\* a collected result with a failing exit code (not 0, not None)
HasFailing == \E k \in DOMAIN results : results[k].rc \notin {<<0>>, <<>>}

StagePcs ==
    {"mixdown_set", "mixdown_run", "mixdown_done", "concat_set", "concat_run",
     "cleanup_set", "cleanup_run"}

\* C9: once a collected result has a failing exit code (non-zero, -1
\* included), the state is set to FAILED by the collect loop's check for
\* that result, and no pipeline stage (mixdown, concatenate, cleanup) runs.
C9_PartialFailure ==
    /\ [](HasFailing =>
            /\ ran = {}
            /\ jpc \notin StagePcs
            /\ state \notin {"MIXDOWN", "CONCATENATE", "CLEANING"})
    /\ [][(jpc = "report" /\ jpc' # "report" /\ HasFailing) => state' = "FAILED"]_vars

\* A finished run of two batches, one failed by its supervisor (-1) and one
\* successful, with every stage requested and none run.
C9_Witness ==
    /\ jpc = "done"
    /\ state = "FAILED"
    /\ Len(ranges) = 2
    /\ \E j, k \in DOMAIN results : results[j].rc = <<-1>> /\ results[k].rc = <<0>>
    /\ DOMAIN props = {"max_parallel", "mixdown", "concatenate", "clean_up_parts"}
    /\ props.mixdown /\ props.concatenate /\ props.clean_up_parts
    /\ ran = {}

\* C10: every batch gets exactly one result: a run() that has returned has
\* its one result either waiting in the pool's queue or recorded, no range is
\* recorded or queued twice, and when the collect loop ends the recorded
\* results are exactly one per range, totalBatches in number.
C10_OneResultPerBatch ==
    /\ summary # None =>
          /\ num = Cardinality(DOMAIN results)
          /\ DOMAIN results \subseteq RangeSet
          /\ Len(outq) + num = Cardinality({b \in Batches : sup[b].pc = "done"})
          /\ \A i \in 1..Len(outq) :
                /\ outq[i].range \notin DOMAIN results
                /\ \A j \in 1..Len(outq) : j # i => outq[j].range # outq[i].range
          /\ \A b \in Batches :
                sup[b].pc # "done" =>
                    /\ ranges[b] \notin DOMAIN results
                    /\ \A i \in 1..Len(outq) : outq[i].range # ranges[b]
    /\ LoopEnded =>
          /\ DOMAIN results = RangeSet
          /\ Cardinality(DOMAIN results) = summary.batches
          /\ outq = <<>>

\* The collect loop ended with two results: one batch failed in its
\* supervisor (crash or timeout), the other was skipped after that.
C10_Witness ==
    /\ LoopEnded
    /\ Len(ranges) = 2
    /\ results[ranges[1]].rc = <<-1>>
    /\ results[ranges[2]].rc = <<>>

\* the concatenation ran and its tool returned 0: the output file was written
ConcatSucceeded == "concatenate" \in ran /\ OutFile \in files

\* the per-batch output files of the recorded results
RecordedParts == {results[k].output_file : k \in DOMAIN results} \ {None}

\* C11: the cleanup stage (state CLEANING, the deletions) never executes
\* unless the concatenation ran in that run and its tool returned 0, and
\* after a concatenation that failed every per-batch output file exists.
C11_CleanupGated ==
    /\ (state = "CLEANING" \/ "cleanup" \in ran) => ConcatSucceeded
    /\ ("concatenate" \in ran /\ OutFile \notin files) => RecordedParts \subseteq files

\* C12: a cleanup that starts after every batch and the concatenation
\* succeeded, with or without a mixdown, deletes the playlist, the sound file
\* if there is one and every per-batch file, and sets the state to RUNNING;
\* only the concatenated output remains.
C12_CleanupDeletes ==
    [][(jpc = "cleanup_run" /\ jpc' # jpc /\ AllSucceeded /\ ConcatSucceeded) =>
          /\ jpc' = "done"
          /\ state' = "RUNNING"
          /\ files' = {OutFile}]_vars

\* C13: the supervisors inside run() at the same time are never more than
\* max_parallel.
C13_BoundedConcurrency ==
    sup # <<>> => Cardinality({b \in Batches : Active(b)}) <= props.max_parallel

\* Two batches and a pool of one: the first supervisor is receiving inside
\* run() and the second batch waits for the thread.
C13_Witness ==
    /\ Len(ranges) = 2
    /\ props.max_parallel = 1
    /\ sup # <<>>
    /\ sup[1].pc = "recv"
    /\ sup[2].pc = "todo"
    /\ state = "RUNNING"

\* a step of run() for batch b that an exception ends: while the worker is
\* made and connected, while a message is received, or after the sentinel
\* when the last message is not a final one
Raises(b) ==
    /\ sup'[b].pc = "done"
    /\ \/ sup[b].pc = "todo" /\ state = "RUNNING"
       \/ sup[b].pc = "recv"
       \/ /\ sup[b].pc = "final_w"
          /\ (sup[b].msg = None \/ "output_file" \notin DOMAIN sup[b].msg)

\* C14: an exception inside run() becomes that batch's result with rc -1 on
\* the pool's queue; it does not end the job thread's collect loop, and the
\* loop still ends with a result for every batch.
C14_FailuresAreData ==
    /\ [][\A b \in Batches :
            (sup # <<>> /\ sup' # <<>> /\ Raises(b)) =>
                /\ outq' = Append(outq, [range |-> ranges[b], rc |-> <<-1>>,
                                         output_file |-> None])
                /\ jpc' = jpc]_vars
    /\ [][(jpc \in {"collect", "report"}) =>
              (jpc' \in {"collect", "report", "after_loop"})]_vars
    /\ [](LoopEnded => \A b \in Batches : ranges[b] \in DOMAIN results)

\* The loop ended with two results: the first batch failed by an exception
\* in its supervisor, its sibling rendered and exited 0.
C14_Witness ==
    /\ LoopEnded
    /\ Len(ranges) = 2
    /\ results[ranges[1]] = [range |-> ranges[1], rc |-> <<-1>>, output_file |-> None]
    /\ \E b \in Batches : results[ranges[b]].rc = <<0>> /\ results[ranges[b]].output_file = PartFile(b)

(***************************************************************************)
(* Properties of _run and of the configuration (checked under SpecRun)     *)
(***************************************************************************)
\* the job thread has left _run, by return or by an exception
ThreadEnded == jpc \in {"returned", "raised"}

C19_DegradedConfiguration ==
    /\ [][\A k \in ExeKinds \ {"executable"} :
             PrefsSetExecutable(k) =>
                 (~panel'.ffmpeg_valid /\ ~panel'.concatenate /\ ~panel'.clean_up_parts)]_vars
    /\ []((panel # None /\ ~panel.ffmpeg_valid) => ~panel.concatenate)
    /\ [][(jpc = "concat_check" /\ jpc' # jpc /\ ~panel.ffmpeg_valid) =>
             (jpc' = "cleanup_check" /\ state' = state)]_vars
    /\ [][(jpc = "cleanup_check" /\ jpc' # jpc /\ ~panel.clean_up_parts) =>
             (jpc' = "done" /\ state' = state /\ files' = files)]_vars
    /\ []((jpc \in {"done", "returned"} /\ ran \subseteq {"mixdown"}) =>
             /\ RecordedParts \subseteq files
             /\ state = "FAILED" => HasFailing)

\* The executable is a directory; the user had asked for concatenation and
\* cleanup; the run rendered its batch, mixed down, and ended with the part
\* file and the sound file on disk, neither concatenated nor cleaned.
C19_Witness ==
    /\ jpc = "returned"
    /\ panel.ffmpeg_executable = "directory"
    /\ ~panel.ffmpeg_valid /\ ~panel.concatenate /\ ~panel.clean_up_parts
    /\ props.mixdown /\ ~props.concatenate /\ ~props.clean_up_parts
    /\ ran = {"mixdown"}
    /\ files = {PartFile(1), SoundFile}
    /\ state = "RUNNING"

(***************************************************************************)
(* Properties of the job state (checked under Spec)                        *)
(***************************************************************************)
StageStates == {"MIXDOWN", "CONCATENATE", "CLEANING"}

\* C16: once modal() has been handed an ESC event during the run, the job
\* thread starts no pipeline stage afterwards, wherever the run was when the
\* event came.
C16_CancelStopsStages ==
    [][esc => ~(state' \in StageStates /\ state' # state)]_vars

\* C17: once the state is FAILED it stays FAILED for the rest of the run.
C17_FailedIsTerminal ==
    [][(state = "FAILED") => (state' = "FAILED")]_vars

\* every stage the run was asked for ran to its end
StagesSucceeded ==
    /\ DOMAIN props = {"max_parallel", "mixdown", "concatenate", "clean_up_parts"}
    /\ props.mixdown => "mixdown" \in ran
    /\ props.concatenate => OutFile \in files
    /\ props.clean_up_parts => "cleanup" \in ran

\* C18: a run without ESC in which every batch and every requested stage
\* succeeded ends in a state DONE that is not RUNNING.
C18_EndsDone ==
    (jpc = "returned" /\ ~esc /\ AllSucceeded /\ StagesSucceeded) =>
        (state = "DONE" /\ state # "RUNNING")

\* C20: 0 <= batches_done <= batches in every state; batches_done never
\* decreases, grows by exactly one with each collected result (failed and
\* skipped ones too), and equals batches when the collect loop has ended.
C20_BatchesDone ==
    /\ [](summary # None =>
            /\ 0 <= summary.batches_done
            /\ summary.batches_done <= summary.batches
            /\ summary.batches_done = Cardinality(DOMAIN results))
    /\ [](LoopEnded => summary.batches_done = summary.batches)
    /\ [][(summary # None /\ summary' # None) =>
            /\ summary'.batches_done >= summary.batches_done
            /\ (results' # results) <=> (summary'.batches_done = summary.batches_done + 1)
            /\ (results' = results) <=> (summary'.batches_done = summary.batches_done)]_vars

\* The loop ended after two results were collected, one failed by its
\* supervisor and one skipped: batches_done is 2.
C20_Witness ==
    /\ LoopEnded
    /\ summary.batches = 2
    /\ summary.batches_done = 2
    /\ \E j, k \in DOMAIN results : results[j].rc = <<-1>> /\ results[k].rc = <<>>
    /\ state = "FAILED"
\* the frames of the ranges in S
RECURSIVE RangeFrames(_)
RangeFrames(S) ==
    IF S = {} THEN 0
    ELSE LET b == CHOOSE x \in S : TRUE IN Size(ranges[b]) + RangeFrames(S \ {b})

\* the batches whose run() has been started by the pool
Started == {b \in Batches : sup[b].pc # "todo"}

\* C21: with every worker reporting only frames of its own range, in every
\* state 0 <= frames_done <= frames, also when workers crash, the connection
\* ends early or only the sentinel arrives; the credits never exceed the
\* frames of the ranges whose supervisors have started.
C21_FramesDoneBound ==
    summary # None =>
        /\ 0 <= summary.frames_done
        /\ summary.frames_done <= summary.frames
        /\ summary.frames_done <= RangeFrames(Started)

\* The loop has ended over two batches, one whose supervisor failed (-1) and
\* one successful; some but not all frames were credited.
C21_Witness ==
    /\ LoopEnded
    /\ Len(ranges) = 2
    /\ \E j, k \in DOMAIN results : results[j].rc = <<-1>> /\ results[k].rc = <<0>>
    /\ 0 < summary.frames_done
    /\ summary.frames_done < summary.frames

\* the concatenation ran and its tool returned a non-zero exit code (the
\* thread did not end in subprocess.call)
ConcatFailed ==
    "concatenate" \in ran /\ jpc \notin {"died", "raised"} /\ OutFile \notin files

\* C26: when the concatenation runs, a non-zero exit code of the tool sets
\* the state to FAILED and a zero exit code sets it back to RUNNING; after a
\* non-zero exit code no later stage runs.
C26_ConcatOutcome ==
    /\ [][(jpc = "concat_run" /\ jpc' = "cleanup_check") =>
             state' = IF OutFile \in files' THEN "RUNNING" ELSE "FAILED"]_vars
    /\ [](ConcatFailed =>
             /\ state \in {"FAILED", "CANCELLING"}
             /\ jpc \in {"cleanup_check", "done", "returned"}
             /\ "cleanup" \notin ran)

\* The tool returned a non-zero exit code with cleanup requested: the run has
\* ended FAILED with the output file missing and nothing cleaned up.
C26_Witness ==
    /\ ConcatFailed
    /\ jpc = "returned"
    /\ state = "FAILED"
    /\ props.clean_up_parts
    /\ RecordedParts # {}
    /\ RecordedParts \subseteq files

\* every batch has a collected result and no run() is left
AllCollected ==
    /\ summary # None
    /\ num = summary.batches
    /\ outq = <<>>
    /\ \A b \in Batches : sup[b].pc = "done" /\ ranges[b] \in DOMAIN results

CheckPcs == {"mixdown_check", "concat_check", "cleanup_check"}

SetPcs == {"mixdown_set", "concat_set", "cleanup_set"}

\* C27: no pipeline stage starts before all results have been collected; the
\* stages that run do so in the order mixdown, concatenate, cleanup, each at
\* most once; a stage starts only if the state is RUNNING at its check, and
\* then every earlier stage that ran has succeeded.
C27_PipelineOrdering ==
    /\ []((jpc \in StagePcs \/ ran # {} \/ state \in StageStates) => AllCollected)
    /\ [](jpc \in {"mixdown_set", "mixdown_run"} => ran = {})
    /\ [](jpc \in {"concat_set", "concat_run"} => ran \subseteq {"mixdown"})
    /\ [](jpc \in {"cleanup_set", "cleanup_run"} => "cleanup" \notin ran)
    /\ [][(jpc' \in SetPcs /\ jpc' # jpc) => (jpc \in CheckPcs /\ state = "RUNNING")]_vars
    /\ []((jpc \in StagePcs /\ "mixdown" \in ran /\ jpc # "mixdown_done")
             => SoundFile \in files)
    /\ []((jpc \in StagePcs /\ "concatenate" \in ran) => OutFile \in files)

\* All three stages have run, in a run of two batches that a pool of one
\* thread rendered one after the other.
C27_Witness ==
    /\ jpc = "returned"
    /\ ran = {"mixdown", "concatenate", "cleanup"}
    /\ Len(ranges) = 2
    /\ props.max_parallel = 1
    /\ AllCollected

\* bpy.ops.sound.mixdown raised and the exception has ended the run
MixdownRaised == jpc = "raised" /\ "mixdown" \in ran /\ SoundFile \notin files /\ "cleanup" \notin ran

\* C28: when the mixdown raises an exception the run ends with state FAILED,
\* not MIXDOWN or RUNNING, and neither concatenation nor cleanup runs.
C28_MixdownFailureFails ==
    MixdownRaised => (state = "FAILED" /\ ran = {"mixdown"})

\* run() of batch b returns in this step with a result of its own (an exit
\* code or -1, not the None of a run() that was skipped)
Delivers(b) ==
    /\ Len(outq') = Len(outq) + 1
    /\ outq'[Len(outq')].range = ranges[b]
    /\ outq'[Len(outq')].rc # None

\* C29: once a supervisor has spawned its worker, a later change of the state
\* to FAILED or CANCELLING does not interrupt its progress loop: the state
\* change leaves every supervisor as it is, the supervisor can still receive
\* the next message, the sentinel or an error and take the lock, and it
\* returns its own result after crediting its frames.
C29_SiblingsRunOn ==
    /\ [][state' # state => (sup' = sup /\ outq' = outq /\ summary' = summary)]_vars
    /\ [](\A b \in Batches :
            state \in {"FAILED", "CANCELLING"} =>
                /\ sup[b].pc = "recv" =>
                       /\ ENABLED SupRecvSentinel(b)
                       /\ ENABLED SupRecvError(b)
                       /\ "output_file" \notin DOMAIN sup[b].msg => ENABLED SupRecvFinal(b)
                /\ (sup[b].pc \in {"credit", "final"} /\ CanAcquire(summary_mutex))
                       => ENABLED SupLock(b)
                /\ sup[b].pc = "credit_w" => ENABLED SupCredit(b)
                /\ sup[b].pc = "final_w" => ENABLED SupFinish(b))
    /\ [][\A b \in Batches :
            /\ (Active(b) /\ sup'[b].pc = "done") => Delivers(b)
            /\ (sup[b].pc = "credit_w" /\ sup'[b].pc # "credit_w") =>
                   summary'.frames_done =
                       summary.frames_done + (sup[b].frame_done - sup[b].last_done)
            /\ (sup[b].pc = "final_w" /\ sup'[b].pc # "final_w") =>
                   summary'.frames_done = summary.frames_done + 1
         ]_vars

\* The first batch has failed and the state is FAILED while the supervisor of
\* the second batch, started with it, credits the final message of its worker.
C29_Witness ==
    /\ state = "FAILED"
    /\ Len(ranges) = 2
    /\ ranges[1] \in DOMAIN results
    /\ Failing(results[ranges[1]])
    /\ sup[2].pc = "credit_w"
    /\ "output_file" \in DOMAIN sup[2].msg

\* the state has been set to RUNNING and the last result is not yet collected
Dispatching == jpc \in {"collect", "report"}

\* the job thread is past `self.state = RUNNING` and not inside a stage
OutsideStages ==
    jpc \in {"collect", "report", "after_loop", "done", "returned"} \cup CheckPcs

\* modal() handles an ESC event in this step
EscHandled == ui_pc = "idle" /\ ui_pc' = "report" /\ esc'

\* C30: an ESC that arrives after the state was set to RUNNING and before the
\* last result is collected sets the state to CANCELLING; from then on the
\* state is never RUNNING again and no pipeline stage is started in that
\* run, whatever the remaining batches return.
C30_CancelDuringDispatch ==
    /\ [][(Dispatching /\ EscHandled) => state' = "CANCELLING"]_vars
    /\ [][(OutsideStages /\ state \in {"CANCELLING", "FAILED"}) =>
             /\ state' \in {"CANCELLING", "FAILED"}
             /\ OutsideStages'
             /\ ran' = ran]_vars
    /\ [](Dispatching => (ran = {} /\ state \in {"RUNNING", "CANCELLING", "FAILED"}))

\* One of two batches is collected with exit code 0, the other is still
\* rendering, and ESC has set the state to CANCELLING.
C30_Witness ==
    /\ jpc = "collect"
    /\ esc
    /\ state = "CANCELLING"
    /\ Len(ranges) = 2
    /\ num = 1
    /\ \E k \in DOMAIN results : results[k].rc = <<0>>
    /\ \E b \in Batches : sup[b].pc = "recv"

\* the job thread has read the state at a stage's check and not yet written
\* the stage's state
BetweenCheckAndSet == jpc \in {"mixdown_set", "concat_set", "cleanup_set"}

\* C25: every write to the summary's counters and every write to the job
\* state, by the job thread, a supervisor or modal(), is made while the one
\* summary mutex is held, so no state change falls between another actor's
\* read of the state and its dependent write.
C25_SingleMutex ==
    [][/\ (summary # None /\ summary' # summary)
            => (summary_mutex = Locked \/ CanAcquire(summary_mutex))
       /\ state' # state => summary_mutex = Locked
       /\ (BetweenCheckAndSet /\ jpc' = jpc) => state' = state
      ]_vars

(***************************************************************************)
(* Properties of a supervisor and its child (checked under SpecWorker)     *)
(***************************************************************************)
\* run() of batch b returns in this step, after the sentinel
ReturnsAfterSentinel(b) == sup[b].pc = "final_w" /\ sup'[b].pc = "done"

\* C23: whenever the sentinel ends a supervisor's stream, after zero or more
\* messages of any content, the supervisor waits for its child to exit and
\* the exit code of its result is the child's exit code.
C23_ExitCodeCollected ==
    [][\A b \in Batches :
          ReturnsAfterSentinel(b) =>
              /\ proc[b].pc = "exited"
              /\ outq' = Append(outq, RunResult(b, proc[b].exit, outq'[Len(outq')].output_file))
      ]_vars

\* C22: the connection a MessageChannel owns is closed when the channel is
\* released, on every exit path; the connection a supervisor accepted is
\* closed by the time the supervisor has produced its result, whether the
\* batch succeeded, the exchange raised or the stream ended early.
C22_ChannelClosed ==
    \A b \in Batches : sup[b].pc = "done" => proc[b].conn # "open"

\* the final message of the worker of batch b
FinalMsg(b) == [current_frame |-> ranges[b][2], output_file |-> PartFile(b)]

\* the worker of batch b found its output file and was not told to overwrite
SkipCase(b) == ~proc[b].overwrite /\ PartFile(b) \in files

\* the worker of batch b has gone past the render without rendering
Skipped(b) == proc[b].pc \in {"final", "finally", "closing", "exited"} /\ ~proc[b].rendered

\* the worker of batch b ended by itself, not by a signal
Exited(b) == proc[b].pc = "exited" /\ proc[b].exit # Some(-11)

\* the results that run() has returned, collected or not
Returned == {results[k] : k \in DOMAIN results} \cup {outq[i] : i \in DOMAIN outq}

\* the collect loop has ended with batch 1 recorded as a success with its file
SkipRecorded ==
    /\ LoopEnded
    /\ ranges[1] \in DOMAIN results
    /\ results[ranges[1]] = RunResult(1, Some(0), PartFile(1))

\* C24: with overwrite false and the output file present the worker does not
\* render; it still sends the final message (current_frame = end frame, the
\* output file), then the sentinel, then exits with code 0; the supervisor's
\* loop ends and the batch is recorded with exit code 0 and that output file
\* (under SpecWorkerFair, and unless a signal kills the worker).
C24_SkipPath ==
    /\ [][\A b \in Batches :
            /\ (proc[b].pc = "connected" /\ SkipCase(b) /\ proc'[b].pc # "connected")
                   => (proc'[b].pc \in {"final", "exited"} /\ ~proc'[b].rendered)
            /\ (Skipped(b) /\ proc[b].pc = "final" /\ proc'[b].pc # "final")
                   => \/ (proc'[b].pc = "finally" /\ proc'[b].chan = Append(proc[b].chan, FinalMsg(b)))
                      \/ proc'[b].exit = Some(-11)
            /\ (Skipped(b) /\ proc[b].pc = "finally" /\ proc'[b].pc # "finally")
                   => \/ (proc'[b].pc = "closing" /\ proc'[b].chan = Append(proc[b].chan, None))
                      \/ proc'[b].exit = Some(-11)
            /\ (Skipped(b) /\ proc[b].pc = "closing" /\ proc'[b].pc # "closing")
                   => proc'[b].exit \in {Some(0), Some(-11)}
         ]_vars
    /\ [](\A b \in Batches :
            (Skipped(b) /\ Exited(b) /\ sup[b].pc = "done")
                => RunResult(b, Some(0), PartFile(b)) \in Returned)
    /\ Skipped(1) ~> (proc[1].exit = Some(-11) \/ SkipRecorded)

\* A worker without --overwrite that found its file has exited 0 by itself,
\* and the collect loop has recorded its batch with exit code 0 and the file.
C24_Witness ==
    /\ LoopEnded
    /\ Skipped(1)
    /\ Exited(1)
    /\ ~proc[1].overwrite
    /\ SkipRecorded

\* the child of batch 1 never connects and its supervisor waits in accept()
WaitsForHung == sup # <<>> /\ sup[1].pc = "accept" /\ proc[1].pc = "hung"

\* every result is collected, that of batch 1 being the failure of its
\* supervisor, and the collect loop has set the state to FAILED
FailureCollected ==
    /\ AllCollected
    /\ results[ranges[1]] = RunResult(1, Some(-1), None)
    /\ state = "FAILED"

\* C31: when a spawned child never connects, accept() gives up after its
\* timeout and run() returns a result with exit code -1; it does not block
\* for ever, every result is collected and the job becomes FAILED.
C31_BoundedHandshake ==
    /\ [][\A b \in Batches :
            (sup[b].pc = "accept" /\ sup'[b].pc = "done") =>
                /\ proc[b].wconn = "none"
                /\ outq' = Append(outq, RunResult(b, Some(-1), None))
         ]_vars
    /\ WaitsForHung ~> FailureCollected

\* The child never connected; the run is over with the batch recorded as a
\* failure of its supervisor and nothing credited.
C31_Witness ==
    /\ jpc = "returned"
    /\ proc[1].pc = "hung"
    /\ AllCollected
    /\ results[ranges[1]] = RunResult(1, Some(-1), None)
    /\ summary.frames_done = 0

\* the child's end of the connection is closed and everything it sent is read
EndOfConnection(b) == proc[b].chan = <<>> /\ proc[b].wconn = "closed"

\* C32: a connection that closes at a message boundary without the sentinel
\* is not the sentinel: recv() raises instead of returning None, and the
\* supervisor returns a result with exit code -1 and no output file without
\* crediting the final frame.
C32_ClosureIsNotSentinel ==
    /\ [](\A b \in Batches :
            (sup[b].pc = "recv" /\ EndOfConnection(b)) =>
                (ENABLED SupRecvError(b) /\ ~ENABLED SupRecvSentinel(b)))
    /\ [][\A b \in Batches :
            /\ (sup[b].pc = "recv" /\ sup'[b].pc = "final") =>
                   (proc[b].chan # <<>> /\ Head(proc[b].chan) = None)
            /\ (sup[b].pc = "recv" /\ sup'[b].pc = "done") =>
                   /\ EndOfConnection(b)
                   /\ outq' = Append(outq, RunResult(b, Some(-1), None))
                   /\ summary' = summary
         ]_vars

\* The worker was killed after a progress message and before its sentinel:
\* the batch is recorded with -1 and the final frame is not credited.
C32_Witness ==
    /\ LoopEnded
    /\ proc[1].exit = Some(-11)
    /\ results[ranges[1]] = RunResult(1, Some(-1), None)
    /\ summary.frames_done > 0
    /\ summary.frames_done < summary.frames

\* the worker of batch b has left its try/finally by itself
PastFinally(b) == proc[b].pc = "closing" \/ Exited(b)

IsFinal(m) == "output_file" \in DOMAIN m

\* C33: on every path of the worker after it has connected (render done,
\* render skipped, exception during the render) the sentinel is sent exactly
\* once and as the last message; the final message with output_file is sent
\* only when no exception occurred, after every progress message and
\* immediately before the sentinel.
C33_MessageSequence ==
    \A b \in Batches :
        LET L == proc[b].log
            n == Len(L)
        IN  /\ \A i \in 1..n : L[i] = None => i = n
            /\ PastFinally(b) => (n >= 1 /\ L[n] = None)
            /\ L # <<>> /\ L[n] = None => proc[b].pc \in {"closing", "exited"}
            /\ \A i \in 1..n :
                  IsFinal(L[i]) =>
                      /\ ~proc[b].exc
                      /\ L[i] = FinalMsg(b)
                      /\ i = n \/ (i = n - 1 /\ L[n] = None)
            /\ (PastFinally(b) /\ ~proc[b].exc) => (n >= 2 /\ L[n - 1] = FinalMsg(b))
            /\ (PastFinally(b) /\ proc[b].exc) => \A i \in 1..n : ~IsFinal(L[i])

\* The render raised after one progress message: the worker sent that
\* message and the sentinel, nothing else, and has exited.
C33_Witness ==
    /\ Exited(1)
    /\ proc[1].exc
    /\ Len(proc[1].log) = 2
    /\ proc[1].log[1] \in {[current_frame |-> f] : f \in WorkerFrames(1)}
    /\ proc[1].log[2] = None

\* C34: within one run frames_done never decreases, whatever frame numbers
\* the workers report (repeated or out of order included) and however the
\* supervisors interleave.
C34_FramesDoneMonotonic ==
    [][(summary # None /\ summary' # None) =>
          summary'.frames_done >= summary.frames_done]_vars

\* the child of batch b has been started
ChildStarted(b) == proc[b].pc # "off"

\* the supervisor binds and listens before it spawns the child, and has
\* closed the child's stdin before it waits in accept()
HandshakeOrdered ==
    \A b \in Batches :
        /\ ChildStarted(b) => proc[b].listening
        /\ sup[b].pc = "accept" => (ChildStarted(b) /\ proc[b].stdin_closed)
        /\ proc[b].conn # "none" => proc[b].stdin_closed

\* C36 as stated: ordered as above, and the payload on the child's stdin is
\* framed like a channel message, a 4-byte big-endian length prefix followed
\* by the serialized config.
C36_HandshakeFramed ==
    /\ HandshakeOrdered
    /\ \A b \in Batches :
          ChildStarted(b) =>
              proc[b].stdin = Pack(Len(DumpsConfig(ranges[b]))) \o DumpsConfig(ranges[b])

\* C36 as the code has it: ordered as above, and the payload on the child's
\* stdin is the serialized config alone, without a length prefix; the end of
\* the input delimits it, and the child that connects has read its own range.
C36_HandshakePlain ==
    /\ HandshakeOrdered
    /\ \A b \in Batches :
          /\ ChildStarted(b) =>
                 /\ proc[b].stdin = DumpsConfig(ranges[b])
                 /\ proc[b].stdin[1] = 123
                 /\ LoadConfig(proc[b].stdin) = ranges[b]
          /\ proc[b].wconn # "none" => LoadConfig(proc[b].stdin) = ranges[b]

\* The supervisor waits in accept() for a child that was started with its
\* config and has connected.
C36_Witness ==
    /\ sup # <<>>
    /\ sup[1].pc = "accept"
    /\ proc[1].pc = "connected"
    /\ proc[1].stdin_closed
    /\ LoadConfig(proc[1].stdin) = <<1, JobLen>>

(***************************************************************************)
(* Properties of the partitioners on invalid intervals (under SpecInvalid) *)
(***************************************************************************)
\* C35: for an interval with frame_end < frame_start, under either
\* partitioner, no batch with start > end is produced (and so no worker is
\* spawned for one).
C35_InvalidRejected ==
    rpc = "done" => \A i \in 1..Len(ranges) : ranges[i][1] <= ranges[i][2]

(***************************************************************************)
(* Skipped batches                                                         *)
(***************************************************************************)
\* the batch whose result is recorded under range k
BatchOf(k) == CHOOSE b \in Batches : ranges[b] = k

\* the results of supervisors that found the state not RUNNING
SkippedResults == {k \in DOMAIN results : results[k].rc = None}

ConcatStarted == jpc \in {"concat_set", "concat_run"} \/ "concatenate" \in ran

\* C38: whenever the concatenation starts, every result has exit code 0 and
\* an output file, and the playlist holds exactly one path per batch, the
\* batches' own files in ascending order of range start; no skipped or failed
\* batch is in the playlist.
C38_ConcatPrecondition ==
    ConcatStarted =>
        /\ \A k \in DOMAIN results :
              results[k].rc = Some(0) /\ results[k].output_file # None
        /\ Len(PlaylistLines(results)) = Len(ranges)
        /\ \A i \in 1..Len(PlaylistLines(results)) :
              /\ PlaylistLines(results)[i] = PartFile(i)
              /\ i > 1 => ranges[i - 1][1] < ranges[i][1]

\* The playlist of a job of two batches is being written.
C38_Witness ==
    /\ jpc = "concat_run"
    /\ Len(ranges) = 2
    /\ PlaylistLines(results) = <<PartFile(1), PartFile(2)>>

(***************************************************************************)
(* The modal handler as observer (checked under SpecObserver)              *)
(***************************************************************************)
\* modal() is past its guard and inside _report_progress
ReadsStatus == ui_pc \in {"describe", "report"}

\* C39: whenever modal() has passed the `summary_mutex is None` guard and
\* reads the status, state and summary are initialised; no timer tick and no
\* cancel request fails on an uninitialised state or summary.
C39_ObserverSafe ==
    /\ ReadsStatus => (state # "None" /\ summary # None)
    /\ ui_pc # "error"

(***************************************************************************)
(* Termination (checked under SpecObserverFair)                            *)
(***************************************************************************)
\* the job thread has ended with one result per batch and the lock free
JobTerminated ==
    /\ ThreadEnded
    /\ summary # None
    /\ summary.batches_done = summary.batches
    /\ Cardinality(DOMAIN results) = Len(ranges)
    /\ outq = <<>>
    /\ summary_mutex = Unlocked

\* C40: when every spawned worker either never connects or ends its
\* connection and exits, and every external tool call returns, then under fair
\* scheduling the job thread eventually terminates with all results
\* collected and the mutex released, and a timer tick after that reports the
\* run finished.
C40_Termination == <>[]JobTerminated /\ <>(ui_pc = "finished")

====
